---- MODULE Spec2Model ----
(***************************************************************************)
(* Model of the data source fallback manager (data_source_fallback.py):    *)
(* class DataSourceFallback with its TuShare -> Baostock -> AkShare chain  *)
(* for daily history, its Baostock -> AkShare chain for financial          *)
(* statements, and the Baostock login/logout session flag.                 *)
(*                                                                         *)
(* Every call of an external provider is one step of the calling thread;   *)
(* the provider's answer is chosen at that step from the answers the       *)
(* provider's API can give (raise, None, an error code, a table of n       *)
(* rows).  Python statements between two provider calls belong to the step *)
(* of the call that precedes them.                                         *)
(***************************************************************************)
EXTENDS Naturals, Integers, Sequences, FiniteSets, TLC

\* ---------------------------------------------------------------- bounds
\* largest number of rows a provider answers with
MaxRows == 2
\* number of operations (requests, logouts, destructions) of one behaviour
MaxOps == 3

\* ConcSpec: operations of one behaviour, and rows of one answer
MaxConcOps == 2
MaxConcRows == 1
\* CodeSpec: longest free string and longest run of digits given to a code converter
MaxLen == 3
MaxDigits == 2
\* MultiSpec: operations started on the two objects together
MaxMultiOps == 3
\* StoreSpec, ConcStoreSpec: rows of a table given to save_daily_data and
\* DatabaseManager calls started
MaxDfRows == 2
MaxSaves == 2
MaxConcSaves == 2
MaxReviews == 2
MaxManagers == 2
MaxCtorCalls == 3
MaxIndexRuns == 2
MaxIndices == 2

\* ------------------------------------------------------------- universes
Objs == {1, 2}
Threads == {1, 2}

\* tushare_token values: None, the empty string, a token
Tokens == {"None", "", "tok"}

\* Python truthiness of the values the model uses (if tushare_token:, if self.tushare_api:)
Truthy(v) == v \notin {"None", ""}

\* ------------------------------------------------------- provider answers
\* An answer is one record shape for every provider:
\*   kind "raise"  the call raised an Exception
\*   kind "None"   the call returned None
\*   kind "df"     a pandas DataFrame with n rows and columns cols
\*   kind "rs"     a baostock result set: error_code, n rows, fields cols
\*   kind "lg"     a baostock login result: error_code
\*   kind "ok"     a call whose value is not used (bs.logout)
\*   kind "absent" no value (a key that a dict does not hold)
Ans(k, ec, n, cols) == [kind |-> k, error_code |-> ec, n |-> n, cols |-> cols]

RAISE == Ans("raise", "", 0, <<>>)
NONE == Ans("None", "", 0, <<>>)
ABSENT == Ans("absent", "", 0, <<>>)
LOGOUT_OK == Ans("ok", "", 0, <<>>)

\* baostock error codes: "0" is success
BS_OK == "0"
BS_ERR == "10001001"

\* fields="ts_code,trade_date,open,high,low,close,pre_close,change,pct_chg,vol,amount"
TS_FIELDS ==
    <<"ts_code", "trade_date", "open", "high", "low", "close", "pre_close",
      "change", "pct_chg", "vol", "amount">>

\* "date,code,open,high,low,close,preclose,volume,amount,adjustflag,turn,tradestatus,pctChg,isST"
BS_FIELDS ==
    <<"date", "code", "open", "high", "low", "close", "preclose", "volume",
      "amount", "adjustflag", "turn", "tradestatus", "pctChg", "isST">>

\* the columns of the three baostock statement queries and of the AkShare
\* tables are the provider's own; the code passes them through unchanged
BS_FIN_FIELDS == <<"code", "pubDate", "statDate">>
AK_COLUMNS == <<"ak_native">>

TsResp == {RAISE, NONE} \cup {Ans("df", "", n, TS_FIELDS) : n \in 0..MaxRows}
LoginResp == {RAISE, Ans("lg", BS_OK, 0, <<>>), Ans("lg", BS_ERR, 0, <<>>)}
BsHistResp ==
    {RAISE, Ans("rs", BS_ERR, 0, BS_FIELDS)}
        \cup {Ans("rs", BS_OK, n, BS_FIELDS) : n \in 0..MaxRows}
BsFinResp ==
    {RAISE, Ans("rs", BS_ERR, 0, BS_FIN_FIELDS)}
        \cup {Ans("rs", BS_OK, n, BS_FIN_FIELDS) : n \in 0..MaxRows}
AkResp == {RAISE, NONE} \cup {Ans("df", "", n, AK_COLUMNS) : n \in 0..MaxRows}
LogoutResp == {RAISE, LOGOUT_OK}

\* ------------------------------------------------------------ data frames
\* df.rename(columns={...}) of the TuShare branch
TsRenameCol(c) ==
    CASE c = "trade_date" -> "date"
      [] c = "ts_code" -> "code"
      [] c = "pre_close" -> "preclose"
      [] c = "vol" -> "volume"
      [] c = "pct_chg" -> "pctChg"
      [] OTHER -> c

rename(df) == [df EXCEPT !.cols = [i \in 1..Len(df.cols) |-> TsRenameCol(df.cols[i])]]

\* data_list filled by the loop  while (rs.error_code == "0") & rs.next()
\* and then pd.DataFrame(data_list, columns=rs.fields)
DataFrame_noRows(rs) == Ans("df", "", 0, rs.cols)

DataFrame(rs) == Ans("df", "", IF rs.error_code = BS_OK THEN rs.n ELSE 0, rs.cols)

\* df is not None and not df.empty
df_usable(df) == df.kind = "df" /\ df.n > 0

\* the dict of the financial request; a key not set is ABSENT
EMPTY_DICT == [profit |-> ABSENT, balance |-> ABSENT, cashflow |-> ABSENT]

\* if result:   (a dict is truthy when it holds a key)
dict_truthy(d) == \E k \in DOMAIN d : d[k] # ABSENT

\* result["profit"] = ... only under  if rs_profit.error_code == "0"
bs_result(rs_profit, rs_balance, rs_cash) ==
    [profit |-> IF rs_profit.error_code = BS_OK THEN DataFrame(rs_profit) ELSE ABSENT,
     balance |-> IF rs_balance.error_code = BS_OK THEN DataFrame(rs_balance) ELSE ABSENT,
     cashflow |-> IF rs_cash.error_code = BS_OK THEN DataFrame(rs_cash) ELSE ABSENT]

\* ----------------------------------------------------------- return values
\* "所有数据源均失败": the one text of every failed request
ALL_FAILED == "all data sources failed"

PENDING == [kind |-> "pending", df |-> ABSENT, dict |-> EMPTY_DICT, text |-> ""]
RAISED == [kind |-> "raise", df |-> ABSENT, dict |-> EMPTY_DICT, text |-> ""]
ReturnDf(df, name) == [kind |-> "return", df |-> df, dict |-> EMPTY_DICT, text |-> name]
ReturnDict(d, name) == [kind |-> "return", df |-> ABSENT, dict |-> d, text |-> name]
\* return None, "所有数据源均失败"
ReturnAllFailed == [kind |-> "return", df |-> NONE, dict |-> EMPTY_DICT, text |-> ALL_FAILED]
\* a method without return statement (_logout_baostock, __del__)
ReturnNone == [kind |-> "return", df |-> NONE, dict |-> EMPTY_DICT, text |-> ""]

\* ------------------------------------------------------------------ state
VARIABLES
    objs,         \* objs[o]: the fields of DataSourceFallback object o
    pc,           \* pc[t]: where thread t stands in the method it runs
    self,         \* self[t]: the object whose method thread t runs
    op,           \* op[t]: "daily", "fin", "logout", "del" or "" when idle
    calls,        \* calls[t]: the provider calls of the running operation with
                  \* their answers, in order (what instrumented mocks record)
    loc,          \* loc[t]: the tables gathered by the financial request
    ret,          \* ret[t]: what the operation gave its caller
    loginCalls,   \* bs.login() calls of the process
    loginOk,      \* bs.login() calls that answered error_code "0"
    logoutCalls,  \* bs.logout() calls of the process
    nops,         \* operations started
    conv,         \* a stock code and what the two code converters made of it
    tsRaised,     \* ts.daily calls that raised since the last one that did not
    abandoned,    \* abandoned[t]: the caller of thread t's request has given it up
    dates,        \* a date range and the arguments get_daily_data makes of it
    tbl,          \* the committed rows of table stock_daily
    atbl,         \* the committed rows of table stock_analysis_result
    job,          \* job[t]: the DatabaseManager call thread t runs, and its session
    nsaves,       \* DatabaseManager calls started
    mtbl,         \* the committed rows of table market_overview
    review,       \* review[t]: the run_daily_review call thread t runs: its
                  \* overview, its manager and session, what
                  \* save_market_overview returned and what was logged
    dbm,          \* class DatabaseManager: _instance, the objects made of it,
                  \* and what was created and handed out since the last reset
    ctor,         \* ctor[t]: the DatabaseManager(...), get_instance() or
                  \* reset_instance() call thread t runs
    quotes,       \* the _get_main_indices call under way: the sources it
                  \* called with their answers, df, data_source and indices
    run,          \* the run of main(): arguments, configuration, what
                  \* run_full_analysis did, and the exit code
    hist          \* the run of history_analysis.py for one stock: arguments
                  \* and the range asked of the fetcher

vars ==
    <<objs, pc, self, op, calls, loc, ret, loginCalls, loginOk, logoutCalls, nops, conv,
      tsRaised, abandoned, dates, tbl, atbl, job, nsaves, mtbl, review, dbm, ctor, quotes, run, hist>>

\* the variables of the programs around the two classes: the market review
\* and the construction of the DatabaseManager
Programs == <<mtbl, review, dbm, ctor, quotes, run, hist>>

\* the variables of the date arguments and of the database, which no method
\* of DataSourceFallback touches
Beside == <<dates, tbl, atbl, job, nsaves, Programs>>

\* the variables of DataSourceFallback objects and their callers
Others ==
    <<objs, pc, self, op, calls, loc, ret, loginCalls, loginOk, logoutCalls, nops,
      tsRaised, abandoned>>

NO_OBJECT ==
    [phase |-> "absent", tushare_token |-> "None", tushare_api |-> "None",
     baostock_logged_in |-> FALSE]

\* DataSourceFallback.__init__: ts_import is "ok" or "raise" (import tushare,
\* ts.set_token, ts.pro_api inside try/except)
init_api(tushare_token, ts_import) ==
    IF Truthy(tushare_token) /\ ts_import = "ok" THEN "pro_api" ELSE "None"

DataSourceFallback(tushare_token, ts_import) ==
    [phase |-> "live", tushare_token |-> tushare_token,
     tushare_api |-> init_api(tushare_token, ts_import),
     baostock_logged_in |-> FALSE]

\* ------------------------------------------------------------ control flow
\* where the caller of _login_baostock goes when it returned True: the
\* Baostock branch of get_daily_data / get_financial_data
login_true_next(o) == IF o = "daily" THEN "bs_history" ELSE "bs_profit"

\* ... and when it returned False: the AkShare branch
login_false_next_abort(o) == "fail_all"

login_false_next(o) == IF o = "daily" THEN "ak_hist" ELSE "ak_balance"

\* if self.baostock_logged_in: return True   (otherwise bs.login() is called)
login_needs_call_always(logged_in) == TRUE

login_needs_call(logged_in) == ~logged_in

\* _logout_baostock: if self.baostock_logged_in:  (otherwise nothing is done)
logout_needs_call(logged_in) == logged_in

\* import baostock as bs  inside _logout_baostock: the module was imported
\* by the login that set the flag, so the statement finds it, except in a
\* destructor that runs while the interpreter shuts down, where it may
\* raise ImportError (sys.meta_path is None)
import_outcomes(phase) == IF phase = "exit" THEN {"ok", "raise"} ELSE {"ok"}

\* the except clause that catches an Exception raised by the provider call
\* at p in operation o, as the place where control continues; "fail_all" is
\* the final  return None, "所有数据源均失败"  and "propagate" means no
\* clause catches it
except_target_loginUncaught(o, p) ==
    CASE p = "ts_daily" -> "login_check"
      [] p = "login_call" -> "propagate"
      [] p = "bs_history" -> "ak_hist"
      [] p = "ak_hist" -> "fail_all"
      [] p \in {"bs_profit", "bs_balance", "bs_cash"} -> "ak_balance"
      [] p \in {"ak_balance", "ak_profit", "ak_cashflow"} -> "fail_all"
      [] p = "logout_call" -> "done"
      [] OTHER -> "propagate"

except_target(o, p) ==
    CASE p = "ts_daily" -> "login_check"
      [] p = "login_call" -> login_false_next(o)
      [] p = "bs_history" -> "ak_hist"
      [] p = "ak_hist" -> "fail_all"
      [] p \in {"bs_profit", "bs_balance", "bs_cash"} -> "ak_balance"
      [] p \in {"ak_balance", "ak_profit", "ak_cashflow"} -> "fail_all"
      [] p = "logout_call" -> "done"
      [] OTHER -> "propagate"

\* if self.tushare_api:  ... else the TuShare branch is skipped
daily_first_pc_alwaysTushare(tushare_api) == "ts_daily"

daily_first_pc(tushare_api) == IF Truthy(tushare_api) THEN "ts_daily" ELSE "login_check"

\* TuShare branch: return df, "TuShare" when the table is usable, else fall
\* through to the Baostock login
ts_daily_next_fallsThrough(r) == "login_check"

ts_daily_next_skipsBaostock(r) == IF df_usable(r) THEN "done" ELSE "ak_hist"

ts_daily_next(r) == IF df_usable(r) THEN "done" ELSE "login_check"

\* Baostock branch: if rs.error_code == "0": ... if not df.empty: return
bs_history_next(r) ==
    IF r.error_code = BS_OK /\ ~(DataFrame(r).n = 0) THEN "done" ELSE "ak_hist"

\* AkShare branch: return df, "AkShare" or the final failure
ak_hist_next_noEmptyTest(r) == IF r.kind = "df" THEN "done" ELSE "fail_all"

ak_hist_next(r) == IF df_usable(r) THEN "done" ELSE "fail_all"

\* Baostock statements: if result: return result, "Baostock"
bs_fin_next_alsoAkShare(d) == "ak_balance"

bs_fin_next(d) == IF dict_truthy(d) THEN "done" ELSE "ak_balance"

\* thread t continues at target; rv is the value of a return statement
\* reached there
Land(t, target, rv) ==
    /\ pc' = [pc EXCEPT ![t] =
                CASE target = "fail_all" -> "done"
                  [] target = "propagate" -> "raised"
                  [] OTHER -> target]
    /\ ret' = [ret EXCEPT ![t] =
                CASE target = "fail_all" -> ReturnAllFailed
                  [] target = "propagate" -> RAISED
                  [] target = "done" -> rv
                  [] OTHER -> @]

\* whether the except clause that catches an exception of provider function
\* fn emits a log record: logger.warning in every clause but the bare
\* except: pass  of _logout_baostock
except_logs(fn) == fn # "bs.logout"

\* the mock of provider function fn answered r to thread t; warned tells
\* whether the code logged a warning for an exception of this call
Called(t, fn, r) ==
    calls' = [calls EXCEPT ![t] =
                Append(@, [fn |-> fn, ans |-> r,
                           warned |-> (r.kind = "raise" /\ except_logs(fn))])]

\* no other thread runs a method of object o
Unused(o, t) == \A u \in Threads \ {t} : pc[u] = "idle" \/ self[u] # o

\* the interpreter shuts down: it has destroyed an object on its way out
Shutdown == \E o \in Objs : objs[o].phase = "exit"

Begin(t, o, name) ==
    /\ pc[t] = "idle"
    /\ name = "del" \/ ~Shutdown
    /\ nops < MaxOps
    /\ nops' = nops + 1
    /\ self' = [self EXCEPT ![t] = o]
    /\ op' = [op EXCEPT ![t] = name]

\* ----------------------------------------------------------------- actions
\* get_daily_data is called: the date strings are built and the TuShare
\* branch is entered or skipped
StartDaily(t) ==
    \E o \in Objs :
        /\ objs[o].phase = "live"
        /\ Begin(t, o, "daily")
        /\ pc' = [pc EXCEPT ![t] = daily_first_pc(objs[o].tushare_api)]
        /\ UNCHANGED <<objs, calls, loc, ret, loginCalls, loginOk, logoutCalls, conv, tsRaised, abandoned, Beside>>

\* self.tushare_api.daily(...)
TsDaily(t) ==
    /\ pc[t] = "ts_daily"
    /\ \E r \in TsResp :
        /\ Called(t, "ts.daily", r)
        /\ IF r.kind = "raise"
             THEN Land(t, except_target(op[t], "ts_daily"), PENDING)
             ELSE Land(t, ts_daily_next(r), ReturnDf(rename(r), "TuShare"))
        /\ tsRaised' = IF r.kind = "raise" THEN tsRaised + 1 ELSE 0
    /\ UNCHANGED <<objs, self, op, loc, loginCalls, loginOk, logoutCalls, nops, conv, abandoned, Beside>>

\* get_financial_data is called: it starts with self._login_baostock()
StartFinancial(t) ==
    \E o \in Objs :
        /\ objs[o].phase = "live"
        /\ Begin(t, o, "fin")
        /\ pc' = [pc EXCEPT ![t] = "login_check"]
        /\ UNCHANGED <<objs, calls, loc, ret, loginCalls, loginOk, logoutCalls, conv, tsRaised, abandoned, Beside>>

\* _login_baostock, its first statement: the read of self.baostock_logged_in
LoginCheck(t) ==
    /\ pc[t] = "login_check"
    /\ pc' = [pc EXCEPT ![t] =
                IF login_needs_call(objs[self[t]].baostock_logged_in)
                  THEN "login_call"
                  ELSE login_true_next(op[t])]
    /\ UNCHANGED <<objs, self, op, calls, loc, ret, loginCalls, loginOk, logoutCalls, nops, conv, tsRaised, abandoned, Beside>>

\* _login_baostock, lg = bs.login() and what follows it
LoginCall(t) ==
    /\ pc[t] = "login_call"
    /\ loginCalls' = loginCalls + 1
    /\ \E r \in LoginResp :
        /\ Called(t, "bs.login", r)
        /\ IF r.kind = "raise"
             THEN /\ Land(t, except_target(op[t], "login_call"), PENDING)
                  /\ UNCHANGED <<objs, loginOk>>
             ELSE IF r.error_code = BS_OK
                    THEN /\ objs' = [objs EXCEPT ![self[t]].baostock_logged_in = TRUE]
                         /\ loginOk' = loginOk + 1
                         /\ Land(t, login_true_next(op[t]), PENDING)
                    ELSE /\ Land(t, login_false_next(op[t]), PENDING)
                         /\ UNCHANGED <<objs, loginOk>>
    /\ UNCHANGED <<self, op, loc, logoutCalls, nops, conv, tsRaised, abandoned, Beside>>

\* bs.query_history_k_data_plus(...), the row loop and the DataFrame
BsHistory(t) ==
    /\ pc[t] = "bs_history"
    /\ \E r \in BsHistResp :
        /\ Called(t, "bs.query_history_k_data_plus", r)
        /\ IF r.kind = "raise"
             THEN Land(t, except_target(op[t], "bs_history"), PENDING)
             ELSE Land(t, bs_history_next(r), ReturnDf(DataFrame(r), "Baostock"))
    /\ UNCHANGED <<objs, self, op, loc, loginCalls, loginOk, logoutCalls, nops, conv, tsRaised, abandoned, Beside>>

\* ak.stock_zh_a_hist(...), the last provider of get_daily_data
AkHist(t) ==
    /\ pc[t] = "ak_hist"
    /\ \E r \in AkResp :
        /\ Called(t, "ak.stock_zh_a_hist", r)
        /\ IF r.kind = "raise"
             THEN Land(t, except_target(op[t], "ak_hist"), PENDING)
             ELSE Land(t, ak_hist_next(r), ReturnDf(r, "AkShare"))
    /\ UNCHANGED <<objs, self, op, loc, loginCalls, loginOk, logoutCalls, nops, conv, tsRaised, abandoned, Beside>>

\* rs_profit = bs.query_profit_data(...)
BsProfit(t) ==
    /\ pc[t] = "bs_profit"
    /\ \E r \in BsFinResp :
        /\ Called(t, "bs.query_profit_data", r)
        /\ IF r.kind = "raise"
             THEN /\ Land(t, except_target(op[t], "bs_profit"), PENDING)
                  /\ loc' = [loc EXCEPT ![t] = EMPTY_DICT]
             ELSE /\ Land(t, "bs_balance", PENDING)
                  /\ loc' = [loc EXCEPT ![t].profit = r]
    /\ UNCHANGED <<objs, self, op, loginCalls, loginOk, logoutCalls, nops, conv, tsRaised, abandoned, Beside>>

\* rs_balance = bs.query_balance_data(...)
BsBalance(t) ==
    /\ pc[t] = "bs_balance"
    /\ \E r \in BsFinResp :
        /\ Called(t, "bs.query_balance_data", r)
        /\ IF r.kind = "raise"
             THEN /\ Land(t, except_target(op[t], "bs_balance"), PENDING)
                  /\ loc' = [loc EXCEPT ![t] = EMPTY_DICT]
             ELSE /\ Land(t, "bs_cash", PENDING)
                  /\ loc' = [loc EXCEPT ![t].balance = r]
    /\ UNCHANGED <<objs, self, op, loginCalls, loginOk, logoutCalls, nops, conv, tsRaised, abandoned, Beside>>

\* rs_cash = bs.query_cash_flow_data(...), then result is filled from the
\* three result sets and returned if it holds a key
BsCash(t) ==
    /\ pc[t] = "bs_cash"
    /\ \E r \in BsFinResp :
        /\ Called(t, "bs.query_cash_flow_data", r)
        /\ IF r.kind = "raise"
             THEN Land(t, except_target(op[t], "bs_cash"), PENDING)
             ELSE LET result == bs_result(loc[t].profit, loc[t].balance, r)
                  IN  Land(t, bs_fin_next(result), ReturnDict(result, "Baostock"))
    /\ loc' = [loc EXCEPT ![t] = EMPTY_DICT]
    /\ UNCHANGED <<objs, self, op, loginCalls, loginOk, logoutCalls, nops, conv, tsRaised, abandoned, Beside>>

\* "balance": ak.stock_financial_report_sina(stock=sina_code, symbol="资产负债表")
AkBalance(t) ==
    /\ pc[t] = "ak_balance"
    /\ \E r \in AkResp :
        /\ Called(t, "ak.stock_financial_report_sina", r)
        /\ IF r.kind = "raise"
             THEN /\ Land(t, except_target(op[t], "ak_balance"), PENDING)
                  /\ loc' = [loc EXCEPT ![t] = EMPTY_DICT]
             ELSE /\ Land(t, "ak_profit", PENDING)
                  /\ loc' = [loc EXCEPT ![t].balance = r]
    /\ UNCHANGED <<objs, self, op, loginCalls, loginOk, logoutCalls, nops, conv, tsRaised, abandoned, Beside>>

\* "profit": ak.stock_financial_report_sina(stock=sina_code, symbol="利润表")
AkProfit(t) ==
    /\ pc[t] = "ak_profit"
    /\ \E r \in AkResp :
        /\ Called(t, "ak.stock_financial_report_sina", r)
        /\ IF r.kind = "raise"
             THEN /\ Land(t, except_target(op[t], "ak_profit"), PENDING)
                  /\ loc' = [loc EXCEPT ![t] = EMPTY_DICT]
             ELSE /\ Land(t, "ak_cashflow", PENDING)
                  /\ loc' = [loc EXCEPT ![t].profit = r]
    /\ UNCHANGED <<objs, self, op, loginCalls, loginOk, logoutCalls, nops, conv, tsRaised, abandoned, Beside>>

\* "cashflow": ak.stock_financial_report_sina(stock=sina_code, symbol="现金流量表")
\* and  return result, "AkShare"
AkCashflow(t) ==
    /\ pc[t] = "ak_cashflow"
    /\ \E r \in AkResp :
        /\ Called(t, "ak.stock_financial_report_sina", r)
        /\ IF r.kind = "raise"
             THEN Land(t, except_target(op[t], "ak_cashflow"), PENDING)
             ELSE Land(t, "done", ReturnDict([loc[t] EXCEPT !.cashflow = r], "AkShare"))
    /\ loc' = [loc EXCEPT ![t] = EMPTY_DICT]
    /\ UNCHANGED <<objs, self, op, loginCalls, loginOk, logoutCalls, nops, conv, tsRaised, abandoned, Beside>>

\* _logout_baostock is called on a live object
StartLogout(t) ==
    \E o \in Objs :
        /\ objs[o].phase = "live"
        /\ Begin(t, o, "logout")
        /\ pc' = [pc EXCEPT ![t] = "logout_check"]
        /\ UNCHANGED <<objs, calls, loc, ret, loginCalls, loginOk, logoutCalls, conv, tsRaised, abandoned, Beside>>

\* __del__: the last reference to the object is gone, so no thread runs one
\* of its methods; it calls self._logout_baostock().  The object is
\* destroyed while the program runs (phase "dead") or by the interpreter
\* that shuts down (phase "exit")
StartDel(t) ==
    \E o \in Objs, at_exit \in BOOLEAN :
        /\ objs[o].phase = "live"
        /\ Unused(o, t)
        /\ at_exit \/ ~Shutdown
        /\ Begin(t, o, "del")
        /\ objs' = [objs EXCEPT ![o].phase = IF at_exit THEN "exit" ELSE "dead"]
        /\ pc' = [pc EXCEPT ![t] = "logout_check"]
        /\ UNCHANGED <<calls, loc, ret, loginCalls, loginOk, logoutCalls, conv, tsRaised, abandoned, Beside>>

\* _logout_baostock, its first statement: if self.baostock_logged_in:
LogoutCheck(t) ==
    /\ pc[t] = "logout_check"
    /\ IF logout_needs_call(objs[self[t]].baostock_logged_in)
         THEN Land(t, "logout_call", PENDING)
         ELSE Land(t, "done", ReturnNone)
    /\ UNCHANGED <<objs, self, op, calls, loc, loginCalls, loginOk, logoutCalls, nops, conv, tsRaised, abandoned, Beside>>

\* import baostock as bs; bs.logout(); self.baostock_logged_in = False
\* inside  try: ... except: pass   An import that raises is swallowed like a
\* logout that raises, and bs.logout() is then not called
LogoutCall(t) ==
    /\ pc[t] = "logout_call"
    /\ \E imp \in import_outcomes(objs[self[t]].phase) :
        IF imp = "raise"
        THEN /\ Land(t, except_target(op[t], "logout_call"), ReturnNone)
             /\ UNCHANGED <<objs, calls, logoutCalls>>
        ELSE /\ logoutCalls' = logoutCalls + 1
             /\ \E r \in LogoutResp :
                 /\ Called(t, "bs.logout", r)
                 /\ IF r.kind = "raise"
                      THEN /\ Land(t, except_target(op[t], "logout_call"), ReturnNone)
                           /\ UNCHANGED objs
                      ELSE /\ Land(t, "done", ReturnNone)
                           /\ objs' = [objs EXCEPT ![self[t]].baostock_logged_in = FALSE]
    /\ UNCHANGED <<self, op, loc, loginCalls, loginOk, nops, conv, tsRaised, abandoned, Beside>>

\* the caller has the result of the operation; the thread is free again
Finish(t) ==
    /\ pc[t] \in {"done", "raised"}
    /\ pc' = [pc EXCEPT ![t] = "idle"]
    /\ op' = [op EXCEPT ![t] = ""]
    /\ calls' = [calls EXCEPT ![t] = <<>>]
    /\ ret' = [ret EXCEPT ![t] = PENDING]
    /\ abandoned' = [abandoned EXCEPT ![t] = FALSE]
    /\ UNCHANGED <<objs, self, loc, loginCalls, loginOk, logoutCalls, nops, conv, tsRaised, Beside>>

\* the caller of a running get_daily_data / get_financial_data request gives
\* the request up (its deadline has passed); the method takes no argument and
\* reads no state that could tell it so
Abandon(t) ==
    /\ op[t] \in {"daily", "fin"}
    /\ pc[t] \notin {"idle", "done", "raised"}
    /\ ~abandoned[t]
    /\ abandoned' = [abandoned EXCEPT ![t] = TRUE]
    /\ UNCHANGED <<objs, pc, self, op, calls, loc, ret, loginCalls, loginOk, logoutCalls, nops,
                   conv, tsRaised, Beside>>

Step(t) ==
    \/ StartDaily(t)
    \/ TsDaily(t)
    \/ StartFinancial(t)
    \/ LoginCheck(t)
    \/ LoginCall(t)
    \/ BsHistory(t)
    \/ AkHist(t)
    \/ BsProfit(t)
    \/ BsBalance(t)
    \/ BsCash(t)
    \/ AkBalance(t)
    \/ AkProfit(t)
    \/ AkCashflow(t)
    \/ StartLogout(t)
    \/ StartDel(t)
    \/ LogoutCheck(t)
    \/ LogoutCall(t)
    \/ Finish(t)

\* ------------------------------------------------------------ stock codes
\* A Python str is a sequence of one-character strings.
DOT == <<".">>

\* "." in stock_code
has_dot(s) == \E i \in 1..Len(s) : s[i] = "."

\* stock_code.startswith(c) for a one-character c
startswith(s, c) == Len(s) > 0 /\ s[1] = c

\* str.lower() on the letters of the market tags
lower_char(c) ==
    CASE c = "S" -> "s"
      [] c = "H" -> "h"
      [] c = "Z" -> "z"
      [] c = "B" -> "b"
      [] c = "J" -> "j"
      [] OTHER -> c

lower(s) == [i \in 1..Len(s) |-> lower_char(s[i])]

\* stock_code.split("."): the pieces between the dots, empty pieces kept
RECURSIVE split(_)
split(s) ==
    IF ~has_dot(s)
      THEN <<s>>
      ELSE LET i == CHOOSE j \in 1..Len(s) : s[j] = "." /\ \A k \in 1..(j - 1) : s[k] # "."
           IN  <<SubSeq(s, 1, i - 1)>> \o split(SubSeq(s, i + 1, Len(s)))

\* what a converter call produces: a str, or an exception
StrResult(v) == [kind |-> "str", val |-> v]
IndexError == [kind |-> "raise", val |-> <<>>]
NoResult == [kind |-> "none", val |-> <<>>]

\* f"{parts[1].lower()}.{parts[0]}"; parts[1] raises IndexError when the
\* list has one element
swap_parts(parts) ==
    IF Len(parts) < 2
      THEN IndexError
      ELSE StrResult(lower(parts[2]) \o DOT \o parts[1])

\* the if/elif chain on the first character of a code without a dot
tushare_suffix_bjOnly8(stock_code) ==
    IF startswith(stock_code, "6") THEN <<".", "S", "H">>
    ELSE IF startswith(stock_code, "0") \/ startswith(stock_code, "3") THEN <<".", "S", "Z">>
    ELSE IF startswith(stock_code, "8") THEN <<".", "B", "J">>
    ELSE <<".", "S", "H">>

tushare_suffix(stock_code) ==
    IF startswith(stock_code, "6") THEN <<".", "S", "H">>
    ELSE IF startswith(stock_code, "0") \/ startswith(stock_code, "3") THEN <<".", "S", "Z">>
    ELSE IF startswith(stock_code, "8") \/ startswith(stock_code, "4") THEN <<".", "B", "J">>
    ELSE <<".", "S", "H">>

baostock_prefix(stock_code) ==
    IF startswith(stock_code, "6") THEN <<"s", "h", ".">>
    ELSE IF startswith(stock_code, "0") \/ startswith(stock_code, "3") THEN <<"s", "z", ".">>
    ELSE IF startswith(stock_code, "8") \/ startswith(stock_code, "4") THEN <<"b", "j", ".">>
    ELSE <<"s", "h", ".">>

\* DataSourceFallback._convert_to_tushare_code
convert_to_tushare_code(stock_code) ==
    IF has_dot(stock_code)
      THEN StrResult(stock_code)
      ELSE StrResult(stock_code \o tushare_suffix(stock_code))

\* DataSourceFallback._convert_to_baostock_code
convert_to_baostock_code_dropsFirst(stock_code) ==
    IF has_dot(stock_code)
      THEN swap_parts(split(stock_code))
      ELSE StrResult(baostock_prefix(stock_code) \o SubSeq(stock_code, 2, Len(stock_code)))

convert_to_baostock_code_noDotTest(stock_code) == swap_parts(split(stock_code))

convert_to_baostock_code(stock_code) ==
    IF has_dot(stock_code)
      THEN swap_parts(split(stock_code))
      ELSE StrResult(baostock_prefix(stock_code) \o stock_code)

\* fromCanonical of the specification's contract: the bare code of a string in
\* a provider format, i.e. the piece beside the market tag; a string without
\* a dot is a bare code already
MarketTags == {<<"s", "h">>, <<"s", "z">>, <<"b", "j">>}

fromCanonical(rawCode) ==
    IF ~has_dot(rawCode)
      THEN rawCode
      ELSE LET parts == split(rawCode)
           IN  IF lower(parts[1]) \in MarketTags THEN parts[2] ELSE parts[1]

\* the codes the converters are applied to
Digits == {"0", "3", "4", "6", "8", "9"}
Chars == Digits \cup {".", "S", "z"}
SuffixTags == {<<"S", "H">>, <<"S", "Z">>, <<"B", "J">>}

Strings(alphabet, n) == UNION {[1..k -> alphabet] : k \in 0..n}

\* codes of the specification's scenarios and of the exchanges' boards
ScenarioCodes ==
    { <<"0", "0", "0", "0", "0", "1">>,
      <<"6", "0", "0", "5", "1", "9">>,
      <<"3", "0", "0", "7", "5", "0">>,
      <<"8", "3", "0", "7", "9", "9">>,
      <<"4", "3", "0", "0", "4", "7">>,
      <<"9", "0", "0", "9", "0", "1">> }

BareCodes == (Strings(Digits, MaxDigits) \ {<< >>}) \cup ScenarioCodes
TushareCodes == {c \o DOT \o m : c \in BareCodes, m \in SuffixTags}
BaostockCodes == {m \o DOT \o c : c \in BareCodes, m \in MarketTags}
Codes == Strings(Chars, MaxLen) \cup BareCodes \cup TushareCodes \cup BaostockCodes

NO_CODE == [input |-> << >>, stage |-> "none", first |-> NoResult, second |-> NoResult]

\* ------------------------------------------------------------------ dates
\* s.replace("-", "")
replace_hyphen_identity(s) == s

RECURSIVE replace_hyphen(_)
replace_hyphen(s) ==
    IF s = << >> THEN << >>
    ELSE IF s[1] = "-" THEN replace_hyphen(Tail(s))
    ELSE <<s[1]>> \o replace_hyphen(Tail(s))

\* the Python slice s[a:b] for 0 <= a <= b
slice(s, a, b) ==
    IF a >= Len(s) THEN << >>
    ELSE SubSeq(s, a + 1, IF b < Len(s) THEN b ELSE Len(s))

\* f"{d[:4]}-{d[4:6]}-{d[6:]}"
date_hyphen(d) == slice(d, 0, 4) \o <<"-">> \o slice(d, 4, 6) \o <<"-">> \o slice(d, 6, Len(d))

\* the date arguments of the three provider calls of get_daily_data:
\* start_date_dash / end_date_dash for TuShare and AkShare,
\* start_date_hyphen / end_date_hyphen for Baostock
daily_args(start_date, end_date) ==
    LET start_date_dash == replace_hyphen(start_date)
        end_date_dash == replace_hyphen(end_date)
        start_date_hyphen == date_hyphen(start_date_dash)
        end_date_hyphen == date_hyphen(end_date_dash)
    IN  [ts |-> <<start_date_dash, end_date_dash>>,
         bs |-> <<start_date_hyphen, end_date_hyphen>>,
         ak |-> <<start_date_dash, end_date_dash>>]

NO_ARGS == [ts |-> << >>, bs |-> << >>, ak |-> << >>]
NO_DATES == [y |-> << >>, m |-> << >>, d |-> << >>, y2 |-> << >>, m2 |-> << >>, d2 |-> << >>,
             stage |-> "none", compact |-> NO_ARGS, hyphened |-> NO_ARGS]

\* the dates of the ranges: year, month and day as digit strings
Years == {<<"2", "0", "2", "3">>, <<"2", "0", "2", "4">>}
Months == {<<"0", "1">>, <<"0", "6">>, <<"1", "2">>}
Days == {<<"0", "1">>, <<"1", "5">>, <<"3", "1">>}

\* a date written YYYYMMDD and written YYYY-MM-DD
YYYYMMDD(y, m, d) == y \o m \o d
YYYY_MM_DD(y, m, d) == y \o <<"-">> \o m \o <<"-">> \o d

\* --------------------------------------------------------------- database
\* stock codes, trade dates (as '%Y-%m-%d' strings), a date string that
\* datetime.strptime(row_date, '%Y-%m-%d') rejects, and the values of a
\* column
StockCodes == {"600519", "000001"}
TradeDates == {"2024-01-02", "2024-01-03"}
BAD_DATE == "20240102"
Prices == {"10.0", "11.0"}
Sources == {"TuShare"}
Names == {"Moutai", "Kweichow"}

\* the keys (code, date) of stock_daily and (code, analysis_date) of
\* stock_analysis_result; a table gives for each key the rows that have it
Keys == StockCodes \X TradeDates

\* a row of stock_daily (close stands for the value columns open .. volume_ratio)
\* and of stock_analysis_result (name stands for the columns of the result;
\* success is the flag of the result the row was written from)
NO_ROW == [close |-> "", data_source |-> ""]
StockDaily(close, data_source) == [close |-> close, data_source |-> data_source]
NO_RESULT_ROW == [name |-> "", success |-> FALSE]
StockAnalysisResult(name, success) == [name |-> name, success |-> success]

EMPTY_TABLE == [k \in Keys |-> << >>]

\* UniqueConstraint('code', 'date', name='uix_code_date') and
\* UniqueConstraint('code', 'analysis_date', name='uix_analysis_code_date'):
\* an INSERT of a key that has a row fails
unique_violation(table, key) == Len(table[key]) > 0

\* the df argument of save_daily_data: None, or rows of a date and a value
DfRow(date, close) == [date |-> date, close |-> close]
DfRows == {DfRow(d, c) : d \in TradeDates, c \in Prices} \cup {DfRow(BAD_DATE, "10.0")}
DF_NONE == [kind |-> "None", rows |-> << >>]
DataFrames ==
    {DF_NONE} \cup {[kind |-> "df", rows |-> r] : r \in UNION {[1..n -> DfRows] : n \in 0..MaxDfRows}}

\* the result argument of save_analysis_result
AnalysisResult(success, code, name) == [success |-> success, code |-> code, name |-> name]
NO_RESULT == AnalysisResult(FALSE, "", "")

\* the Session of a call (sessionmaker(autocommit=False, autoflush=False)):
\*   loaded[d]  the row the first SELECT for date d returned (identity map)
\*   cur[d]     the attribute values of that object now
\*   pending    the objects given to session.add, not flushed before commit
NOT_LOADED(absent) == [d \in TradeDates |-> absent]

NO_JOB ==
    [pc |-> "idle", op |-> "", df |-> DF_NONE, code |-> "", data_source |-> "",
     result |-> NO_RESULT, analysis_date |-> "", i |-> 0,
     loaded |-> NOT_LOADED(NO_ROW), cur |-> NOT_LOADED(NO_ROW), pending |-> << >>,
     saved_count |-> 0, ret |-> "pending"]

\* datetime.strptime(row_date, '%Y-%m-%d') succeeds
strptime_ok(row_date) == row_date \in TradeDates

\* the UPDATE of the flush for one loaded object: SQLAlchemy writes the
\* columns whose value differs from the value that was loaded, into the row
\* as the table holds it now
update_row(now, was, cur) ==
    [c \in DOMAIN now |-> IF cur[c] # was[c] THEN cur[c] ELSE now[c]]

apply_updates(table, code, loaded, cur, absent) ==
    [k \in Keys |->
        IF k[1] = code /\ loaded[k[2]] # absent /\ Len(table[k]) > 0
          THEN <<update_row(table[k][1], loaded[k[2]], cur[k[2]])>> \o Tail(table[k])
          ELSE table[k]]

\* the INSERTs of the flush, in the order of session.add; an INSERT of a key
\* the table holds violates the unique constraint (IntegrityError) and ends
\* the flush
RECURSIVE apply_inserts(_, _)
apply_inserts(table, pending) ==
    IF pending = << >> THEN [ok |-> TRUE, table |-> table]
    ELSE LET rec == pending[1]
         IN  IF unique_violation(table, rec.key)
               THEN [ok |-> FALSE, table |-> table]
               ELSE apply_inserts([table EXCEPT ![rec.key] = Append(@, rec.row)], Tail(pending))

\* session.commit(): the flush (UPDATEs, then INSERTs) inside the
\* transaction
flush(table, j, absent) ==
    apply_inserts(apply_updates(table, j.code, j.loaded, j.cur, absent), j.pending)

\* session.rollback(): the table as it was before the transaction
rollback_keepsFlushed(before, flushed) == flushed

rollback(before, flushed) == before

\* if not result.success: return False
skip_result_never(result) == FALSE

skip_result(result) == ~result.success

\* saved_count += 1 stands in the branch of session.add only
count_after_update(saved_count) == saved_count
count_after_insert(saved_count) == saved_count + 1

\* ------------------------------------------------- DatabaseManager actions
\* the variables of DataSourceFallback and of the pure functions
Apart ==
    <<objs, pc, self, op, calls, loc, ret, loginCalls, loginOk, logoutCalls, nops, conv,
      tsRaised, abandoned, dates, Programs>>

SetJob(t, j) == job' = [job EXCEPT ![t] = j]

\* save_daily_data(df, code, data_source) is called:
\* if df is None or df.empty: return 0, else the session is opened
SaveDailyStart(t) ==
    /\ job[t].pc = "idle"
    /\ nsaves < MaxSaves
    /\ nsaves' = nsaves + 1
    /\ \E df \in DataFrames, code \in StockCodes, data_source \in Sources :
        LET j == [NO_JOB EXCEPT !.op = "daily", !.df = df, !.code = code,
                                !.data_source = data_source]
        IN  IF df.kind = "None" \/ Len(df.rows) = 0
              THEN SetJob(t, [j EXCEPT !.pc = "done", !.ret = 0])
              ELSE SetJob(t, [j EXCEPT !.pc = "row", !.i = 1])
    /\ UNCHANGED <<Apart, tbl, atbl>>

\* one turn of  for _, row in df.iterrows():  the date is parsed, the row of
\* (code, row_date) is selected (scalar_one_or_none raises on two rows) and
\* either updated in memory or a new record is given to session.add; an
\* exception goes to rollback and raise
SaveDailyRow(t) ==
    /\ job[t].pc = "row"
    /\ LET j == job[t]
           row == j.df.rows[j.i]
           d == row.date
           next == IF j.i = Len(j.df.rows) THEN "commit" ELSE "row"
           values == StockDaily(row.close, j.data_source)
       IN  IF ~strptime_ok(d)
             THEN SetJob(t, [j EXCEPT !.pc = "raised", !.ret = "raise"])
             ELSE IF j.loaded[d] # NO_ROW
               THEN SetJob(t, [j EXCEPT !.pc = next, !.i = @ + 1,
                                        !.cur[d] = values,
                                        !.saved_count = count_after_update(@)])
             ELSE IF Len(tbl[<<j.code, d>>]) > 1
               THEN SetJob(t, [j EXCEPT !.pc = "raised", !.ret = "raise"])
             ELSE IF Len(tbl[<<j.code, d>>]) = 1
               THEN SetJob(t, [j EXCEPT !.pc = next, !.i = @ + 1,
                                        !.loaded[d] = tbl[<<j.code, d>>][1],
                                        !.cur[d] = values,
                                        !.saved_count = count_after_update(@)])
             ELSE SetJob(t, [j EXCEPT !.pc = next, !.i = @ + 1,
                                      !.pending = Append(@, [key |-> <<j.code, d>>, row |-> values]),
                                      !.saved_count = count_after_insert(@)])
    /\ UNCHANGED <<Apart, tbl, atbl, nsaves>>

\* session.commit() and return saved_count, or the except branch:
\* session.rollback() and raise.  The commit fails on a violated unique
\* constraint or on an error of the database (db_error).
SaveDailyCommit(t) ==
    /\ job[t].pc = "commit"
    /\ job[t].op = "daily"
    /\ \E db_error \in BOOLEAN :
        LET j == job[t]
            f == flush(tbl, j, NO_ROW)
        IN  IF f.ok /\ ~db_error
              THEN /\ tbl' = f.table
                   /\ SetJob(t, [j EXCEPT !.pc = "done", !.ret = j.saved_count])
              ELSE /\ tbl' = rollback(tbl, f.table)
                   /\ SetJob(t, [j EXCEPT !.pc = "raised", !.ret = "raise"])
    /\ UNCHANGED <<Apart, atbl, nsaves>>

\* save_analysis_result(result, analysis_date) is called:
\* if not result.success: return False
SaveAnalysisStart(t) ==
    /\ job[t].pc = "idle"
    /\ nsaves < MaxSaves
    /\ nsaves' = nsaves + 1
    /\ \E success \in BOOLEAN, code \in StockCodes, name \in Names, analysis_date \in TradeDates :
        LET result == AnalysisResult(success, code, name)
            j == [NO_JOB EXCEPT !.op = "analysis", !.result = result, !.code = code,
                                !.analysis_date = analysis_date,
                                !.loaded = NOT_LOADED(NO_RESULT_ROW),
                                !.cur = NOT_LOADED(NO_RESULT_ROW)]
        IN  IF skip_result(result)
              THEN SetJob(t, [j EXCEPT !.pc = "done", !.ret = FALSE])
              ELSE SetJob(t, [j EXCEPT !.pc = "select"])
    /\ UNCHANGED <<Apart, tbl, atbl>>

\* the SELECT of (result.code, analysis_date), then the attributes of the
\* existing row are set or a new record is given to session.add
SaveAnalysisSelect(t) ==
    /\ job[t].pc = "select"
    /\ LET j == job[t]
           d == j.analysis_date
           values == StockAnalysisResult(j.result.name, j.result.success)
       IN  IF Len(atbl[<<j.code, d>>]) > 1
             THEN SetJob(t, [j EXCEPT !.pc = "done", !.ret = FALSE])
           ELSE IF Len(atbl[<<j.code, d>>]) = 1
             THEN SetJob(t, [j EXCEPT !.pc = "commit",
                                      !.loaded[d] = atbl[<<j.code, d>>][1],
                                      !.cur[d] = values])
             ELSE SetJob(t, [j EXCEPT !.pc = "commit",
                                      !.pending = Append(@, [key |-> <<j.code, d>>, row |-> values])])
    /\ UNCHANGED <<Apart, tbl, atbl, nsaves>>

\* session.commit() and return True, or the except branch:
\* session.rollback() and return False
SaveAnalysisCommit(t) ==
    /\ job[t].pc = "commit"
    /\ job[t].op = "analysis"
    /\ \E db_error \in BOOLEAN :
        LET j == job[t]
            f == flush(atbl, j, NO_RESULT_ROW)
        IN  IF f.ok /\ ~db_error
              THEN /\ atbl' = f.table
                   /\ SetJob(t, [j EXCEPT !.pc = "done", !.ret = TRUE])
              ELSE /\ atbl' = rollback(atbl, f.table)
                   /\ SetJob(t, [j EXCEPT !.pc = "done", !.ret = FALSE])
    /\ UNCHANGED <<Apart, tbl, nsaves>>

\* the caller has the result (or the exception) of the DatabaseManager call
SaveFinish(t) ==
    /\ job[t].pc \in {"done", "raised"}
    /\ SetJob(t, NO_JOB)
    /\ UNCHANGED <<Apart, tbl, atbl, nsaves>>

\* get_daily_data builds the date arguments of its provider calls from
\* start_date and end_date, here for the range written without and with
\* hyphens
NormaliseDates ==
    /\ dates.stage = "new"
    /\ dates' = [dates EXCEPT
                   !.stage = "done",
                   !.compact = daily_args(YYYYMMDD(dates.y, dates.m, dates.d),
                                          YYYYMMDD(dates.y2, dates.m2, dates.d2)),
                   !.hyphened = daily_args(YYYY_MM_DD(dates.y, dates.m, dates.d),
                                           YYYY_MM_DD(dates.y2, dates.m2, dates.d2))]
    /\ UNCHANGED <<Others, conv, tbl, atbl, job, nsaves, Programs>>

\* ------------------ realtime index quotes (market_analyzer.py, realtime
\* branch of _get_main_indices)
\* what a quote source answers: ak.stock_zh_index_spot_em and
\* ak.stock_zh_index_spot_sina raise, give None, an empty or a filled table;
\* _fetch_qq_index_data gives a dict, empty when the request failed
SpotAnswers == {"raise", "None", "empty", "rows"}
QqAnswers == {"empty", "data"}

\* df after "df = ak....()" inside try: an exception leaves df as it was
df_after(df, ans) == IF ans = "raise" THEN df ELSE ans

\* data_source after a call: set when the table has rows
data_source_after(data_source, ans, name) == IF ans = "rows" THEN name ELSE data_source

\* if df is None or df.empty
next_source_needed_always(df) == TRUE
next_source_needed(df) == df \in {"None", "empty"}

NO_INDICES == [source |-> "", n |-> 0]

NO_QUOTES ==
    [pc |-> "idle", calls |-> << >>, df |-> "None", data_source |-> "None",
     indices |-> NO_INDICES, ret |-> "pending", n |-> 0]

\* _get_main_indices() without target_date is called
GetMainIndices ==
    /\ quotes.pc = "idle"
    /\ quotes.n < MaxIndexRuns
    /\ quotes' = [NO_QUOTES EXCEPT !.pc = "em", !.n = quotes.n + 1]
    /\ UNCHANGED <<Others, conv, dates, tbl, atbl, job, nsaves, mtbl, review, dbm, ctor, run, hist>>

\* ak.stock_zh_index_spot_em()
SpotEm ==
    /\ quotes.pc = "em"
    /\ \E ans \in SpotAnswers :
        LET df == df_after(quotes.df, ans)
        IN  quotes' = [quotes EXCEPT
                !.calls = Append(quotes.calls, [fn |-> "eastmoney", ans |-> ans]),
                !.df = df,
                !.data_source = data_source_after(quotes.data_source, ans, "eastmoney"),
                !.pc = IF next_source_needed(df) THEN "sina" ELSE "build"]
    /\ UNCHANGED <<Others, conv, dates, tbl, atbl, job, nsaves, mtbl, review, dbm, ctor, run, hist>>

\* ak.stock_zh_index_spot_sina()
SpotSina ==
    /\ quotes.pc = "sina"
    /\ \E ans \in SpotAnswers :
        LET df == df_after(quotes.df, ans)
        IN  quotes' = [quotes EXCEPT
                !.calls = Append(quotes.calls, [fn |-> "sina", ans |-> ans]),
                !.df = df,
                !.data_source = data_source_after(quotes.data_source, ans, "sina"),
                !.pc = IF next_source_needed(df) THEN "qq" ELSE "build"]
    /\ UNCHANGED <<Others, conv, dates, tbl, atbl, job, nsaves, mtbl, review, dbm, ctor, run, hist>>

\* _fetch_qq_index_data(...): with data, the indices found in it are built
\* and returned; without, the method goes on to the test of df
FetchQq ==
    /\ quotes.pc = "qq"
    /\ \E ans \in QqAnswers, found \in 0..MaxIndices :
        quotes' = [quotes EXCEPT
            !.calls = Append(quotes.calls, [fn |-> "tencent", ans |-> ans]),
            !.indices = IF ans = "data" THEN [source |-> "tencent", n |-> found]
                        ELSE quotes.indices,
            !.ret = IF ans = "data" THEN "list" ELSE quotes.ret,
            !.pc = IF ans = "data" THEN "done" ELSE "build"]
    /\ UNCHANGED <<Others, conv, dates, tbl, atbl, job, nsaves, mtbl, review, dbm, ctor, run, hist>>

\* if df is not None and not df.empty: the indices found in df are built,
\* up to a row that makes the construction raise (outer except); return
BuildIndices ==
    /\ quotes.pc = "build"
    /\ \E built \in 0..MaxIndices :
        quotes' = [quotes EXCEPT
            !.indices = IF quotes.df = "rows"
                        THEN [source |-> quotes.data_source, n |-> built]
                        ELSE quotes.indices,
            !.ret = "list",
            !.pc = "done"]
    /\ UNCHANGED <<Others, conv, dates, tbl, atbl, job, nsaves, mtbl, review, dbm, ctor, run, hist>>

\* the caller has the list
QuotesReturn ==
    /\ quotes.pc = "done"
    /\ quotes' = [quotes EXCEPT !.pc = "idle"]
    /\ UNCHANGED <<Others, conv, dates, tbl, atbl, job, nsaves, mtbl, review, dbm, ctor, run, hist>>

\* --------------------------- the DatabaseManager singleton (storage.py)
\* None as the value of _instance, of a call's object and of its result
NO_INSTANCE == 0

Managers == 1..MaxManagers

\* the db_url argument: left out, or a URL of its own
DbUrls == {"None", "sqlite:///other.db"}

\* if db_url is None: db_url = config.get_db_url()
db_url_of(db_url) == IF db_url = "None" THEN "config" ELSE db_url

\* an object of the class: has_flag says whether attribute _initialized
\* is set, _engine is "" while the object has no attribute _engine,
\* disposed says that dispose() was called on its engine
NEW_OBJECT ==
    [made |-> TRUE, has_flag |-> FALSE, _initialized |-> FALSE, _engine |-> "",
     disposed |-> FALSE]
NO_MANAGER_OBJECT ==
    [made |-> FALSE, has_flag |-> FALSE, _initialized |-> FALSE, _engine |-> "",
     disposed |-> FALSE]

\* the class before its first use; engines and returned count what was
\* created and which objects were handed out since the last reset
NO_MANAGER ==
    [_instance |-> NO_INSTANCE, objects |-> [m \in Managers |-> NO_MANAGER_OBJECT],
     nobj |-> 0, engines |-> 0, returned |-> {}, ncalls |-> 0]

NO_CALL == [pc |-> "idle", op |-> "", db_url |-> "None", self |-> NO_INSTANCE,
            ret |-> NO_INSTANCE, db_fault |-> FALSE]

SetCtor(t, c) == ctor' = [ctor EXCEPT ![t] = c]

\* __new__: where to go after "if cls._instance is None"
new_next(instance) == IF instance = NO_INSTANCE THEN "new_alloc" ELSE "new_ret"

\* __init__: where to go after "if self._initialized"
init_next(obj) ==
    IF ~obj.has_flag THEN "raised"
    ELSE IF obj._initialized THEN "init_done" ELSE "init_engine"

\* get_instance: where to go after "if cls._instance is None"
get_next(instance) == IF instance = NO_INSTANCE THEN "new_check" ELSE "get_ret"

StayOthers == <<Others, conv, dates, tbl, atbl, job, nsaves, mtbl, review, quotes, run, hist>>

\* DatabaseManager(db_url) is called
CallNew(t) ==
    /\ ctor[t].pc = "idle"
    /\ dbm.ncalls < MaxCtorCalls
    /\ \E db_url \in DbUrls :
        SetCtor(t, [NO_CALL EXCEPT !.pc = "new_check", !.op = "new", !.db_url = db_url])
    /\ dbm' = [dbm EXCEPT !.ncalls = dbm.ncalls + 1]
    /\ UNCHANGED StayOthers

\* __new__: if cls._instance is None
NewCheck(t) ==
    /\ ctor[t].pc = "new_check"
    /\ SetCtor(t, [ctor[t] EXCEPT !.pc = new_next(dbm._instance)])
    /\ UNCHANGED <<StayOthers, dbm>>

\* __new__: cls._instance = super().__new__(cls)
NewAlloc(t) ==
    /\ ctor[t].pc = "new_alloc"
    /\ dbm.nobj < MaxManagers
    /\ dbm' = [dbm EXCEPT !.nobj = dbm.nobj + 1,
                          !._instance = dbm.nobj + 1,
                          !.objects[dbm.nobj + 1] = NEW_OBJECT]
    /\ SetCtor(t, [ctor[t] EXCEPT !.pc = "new_flag"])
    /\ UNCHANGED StayOthers

\* __new__: cls._instance._initialized = False, on the object _instance
\* names now; AttributeError when _instance is None by now
NewFlag(t) ==
    /\ ctor[t].pc = "new_flag"
    /\ IF dbm._instance = NO_INSTANCE
       THEN /\ SetCtor(t, [ctor[t] EXCEPT !.pc = "raised"])
            /\ UNCHANGED dbm
       ELSE /\ dbm' = [dbm EXCEPT !.objects[dbm._instance].has_flag = TRUE,
                                  !.objects[dbm._instance]._initialized = FALSE]
            /\ SetCtor(t, [ctor[t] EXCEPT !.pc = "new_ret"])
    /\ UNCHANGED StayOthers

\* __new__: return cls._instance; __init__ is then called on that object,
\* and is not called when __new__ returned None
NewRet(t) ==
    /\ ctor[t].pc = "new_ret"
    /\ SetCtor(t, [ctor[t] EXCEPT
                      !.pc = IF dbm._instance = NO_INSTANCE THEN "init_done"
                             ELSE "init_check",
                      !.self = dbm._instance])
    /\ UNCHANGED <<StayOthers, dbm>>

\* __init__: if self._initialized: return
InitCheck(t) ==
    /\ ctor[t].pc = "init_check"
    /\ SetCtor(t, [ctor[t] EXCEPT !.pc = init_next(dbm.objects[ctor[t].self])])
    /\ UNCHANGED <<StayOthers, dbm>>

\* __init__: create_engine and sessionmaker, or create_engine raising
InitEngine(t) ==
    /\ ctor[t].pc = "init_engine"
    /\ \E raises \in BOOLEAN :
        IF raises
        THEN /\ SetCtor(t, [ctor[t] EXCEPT !.pc = "raised", !.db_fault = TRUE])
             /\ UNCHANGED dbm
        ELSE /\ dbm' = [dbm EXCEPT !.objects[ctor[t].self]._engine =
                                        db_url_of(ctor[t].db_url),
                                   !.objects[ctor[t].self].disposed = FALSE,
                                   !.engines = dbm.engines + 1]
             /\ SetCtor(t, [ctor[t] EXCEPT !.pc = "init_tables"])
    /\ UNCHANGED StayOthers

\* __init__: create_all and self._initialized = True, or create_all raising
InitTables(t) ==
    /\ ctor[t].pc = "init_tables"
    /\ \E raises \in BOOLEAN :
        IF raises
        THEN /\ SetCtor(t, [ctor[t] EXCEPT !.pc = "raised", !.db_fault = TRUE])
             /\ UNCHANGED dbm
        ELSE /\ dbm' = [dbm EXCEPT !.objects[ctor[t].self].has_flag = TRUE,
                                   !.objects[ctor[t].self]._initialized = TRUE]
             /\ SetCtor(t, [ctor[t] EXCEPT !.pc = "init_done"])
    /\ UNCHANGED StayOthers

\* the construction is over: DatabaseManager(...) gives the object, and
\* get_instance stores it (cls._instance = cls())
InitDone(t) ==
    /\ ctor[t].pc = "init_done"
    /\ IF ctor[t].op = "get"
       THEN /\ dbm' = [dbm EXCEPT !._instance = ctor[t].self]
            /\ SetCtor(t, [ctor[t] EXCEPT !.pc = "get_ret"])
       ELSE /\ SetCtor(t, [ctor[t] EXCEPT !.pc = "done", !.ret = ctor[t].self])
            /\ UNCHANGED dbm
    /\ UNCHANGED StayOthers

\* get_instance() is called: if cls._instance is None
GetInstance(t) ==
    /\ ctor[t].pc = "idle"
    /\ dbm.ncalls < MaxCtorCalls
    /\ SetCtor(t, [NO_CALL EXCEPT !.pc = get_next(dbm._instance), !.op = "get"])
    /\ dbm' = [dbm EXCEPT !.ncalls = dbm.ncalls + 1]
    /\ UNCHANGED StayOthers

\* get_instance: return cls._instance
GetRet(t) ==
    /\ ctor[t].pc = "get_ret"
    /\ SetCtor(t, [ctor[t] EXCEPT !.pc = "done", !.ret = dbm._instance])
    /\ UNCHANGED <<StayOthers, dbm>>

\* reset_instance() is called: if cls._instance is not None
ResetInstance(t) ==
    /\ ctor[t].pc = "idle"
    /\ dbm.ncalls < MaxCtorCalls
    /\ dbm' = IF dbm._instance = NO_INSTANCE
              THEN [dbm EXCEPT !.ncalls = dbm.ncalls + 1, !.engines = 0, !.returned = {}]
              ELSE [dbm EXCEPT !.ncalls = dbm.ncalls + 1]
    /\ SetCtor(t, [NO_CALL EXCEPT
                      !.pc = IF dbm._instance = NO_INSTANCE THEN "done"
                             ELSE "reset_dispose",
                      !.op = "reset"])
    /\ UNCHANGED StayOthers

\* reset_instance: cls._instance._engine.dispose(), on the object _instance
\* names now; AttributeError when _instance is None by now or names an
\* object without attribute _engine
ResetDispose(t) ==
    /\ ctor[t].pc = "reset_dispose"
    /\ IF dbm._instance = NO_INSTANCE \/ dbm.objects[dbm._instance]._engine = ""
       THEN /\ SetCtor(t, [ctor[t] EXCEPT !.pc = "raised"])
            /\ UNCHANGED dbm
       ELSE /\ dbm' = [dbm EXCEPT !.objects[dbm._instance].disposed = TRUE]
            /\ SetCtor(t, [ctor[t] EXCEPT !.pc = "reset_assign"])
    /\ UNCHANGED StayOthers

\* reset_instance: cls._instance = None
ResetAssign(t) ==
    /\ ctor[t].pc = "reset_assign"
    /\ dbm' = [dbm EXCEPT !._instance = NO_INSTANCE, !.engines = 0, !.returned = {}]
    /\ SetCtor(t, [ctor[t] EXCEPT !.pc = "done"])
    /\ UNCHANGED StayOthers

\* the caller has the result, or the exception
CtorFinish(t) ==
    /\ ctor[t].pc \in {"done", "raised"}
    /\ dbm' = [dbm EXCEPT !.returned =
                    IF ctor[t].pc = "done" /\ ctor[t].op # "reset"
                    THEN dbm.returned \cup {ctor[t].ret} ELSE dbm.returned]
    /\ SetCtor(t, [NO_CALL EXCEPT !.op = ctor[t].op, !.ret = ctor[t].ret])
    /\ UNCHANGED StayOthers

\* ------------------------------ the market review (market_analyzer.py)
\* MarketIndex: the fields of the dataclass
MarketIndex(code, current) ==
    [code |-> code, name |-> "index", current |-> current, change |-> "0.0",
     change_pct |-> "0.0", open |-> "0.0", high |-> "0.0", low |-> "0.0",
     prev_close |-> "0.0", volume |-> "0.0", amount |-> "0.0", amplitude |-> "0.0"]

MarketOverview(date, indices, up_count) ==
    [date |-> date, indices |-> indices, up_count |-> up_count, down_count |-> 0]

ReviewDates == TradeDates
Counts == {0, 1}
IndexLists == {<< >>, <<MarketIndex("000001", "3000.0")>>}
Overviews ==
    {MarketOverview(d, ix, u) : d \in ReviewDates, ix \in IndexLists, u \in Counts}

\* obj.a on an object without attribute a raises AttributeError
hasattr(obj, a) == a \in DOMAIN obj

\* the attributes save_market_overview reads of every index of the overview
INDEX_JSON_ATTRS == {"code", "name", "close", "pct_chg"}

indices_raises(indices) ==
    \E i \in 1..Len(indices) : \E a \in INDEX_JSON_ATTRS : ~hasattr(indices[i], a)

\* json.dumps([...]) if overview.indices else None
JSON_NONE == [kind |-> "None", items |-> << >>]
indices_json(indices) ==
    IF indices = << >> THEN JSON_NONE
    ELSE [kind |-> "json",
          items |-> [i \in 1..Len(indices) |->
                        [a \in INDEX_JSON_ATTRS |-> indices[i][a]]]]

\* a row of table market_overview
MarketOverviewModel(overview, json) ==
    [up_count |-> overview.up_count, down_count |-> overview.down_count, indices |-> json]

EMPTY_MARKET == [d \in ReviewDates |-> << >>]

\* what market_overview may hold of earlier runs: a row of the first date
PriorMarkets ==
    {EMPTY_MARKET,
     [EMPTY_MARKET EXCEPT !["2024-01-02"] =
        <<MarketOverviewModel(MarketOverview("2024-01-02", << >>, 0), JSON_NONE)>>]}

\* the row of a date that market_overview does not hold
NO_MARKET_ROW == MarketOverviewModel(MarketOverview("", << >>, 0), JSON_NONE)

\* what the database does to a statement: it runs it, it refuses it (an
\* SQLAlchemyError), or it refuses it and the rollback as well
Faults == {"none", "error", "rollback_error"}

\* a run_daily_review call: db is the manager get_db() gave, existing, loaded
\* and cur are the row of the session (see NO_JOB), ret is what
\* save_market_overview returned ("raise" when it raised), raised says that
\* the try of step 4 was left by an exception
NO_REVIEW ==
    [pc |-> "idle", overview |-> MarketOverview("", << >>, 0), db |-> NO_INSTANCE,
     existing |-> FALSE, loaded |-> NO_MARKET_ROW, cur |-> NO_MARKET_ROW,
     ret |-> "pending", fault |-> "none", raised |-> FALSE, logged |-> "", n |-> 0]

SetReview(t, r) == review' = [review EXCEPT ![t] = r]

\* the run_daily_review calls made so far
ReviewsStarted == review[1].n + review[2].n

\* get_session: self._SessionLocal() on a manager whose __init__ did not
\* reach the session factory raises AttributeError
get_session_raises(obj) == obj._engine = ""

\* the except branch of save_market_overview: session.rollback() and
\* return False, or the exception of the rollback
after_rollback(fault) == IF fault = "rollback_error" THEN "raise" ELSE "False"

\* step 4 of run_daily_review: the line logged after the try; the value
\* save_market_overview returned is not looked at
log_after_save(raised) == IF raised THEN "warning" ELSE "saved"

ReviewOthers == <<Others, conv, dates, tbl, atbl, job, nsaves, quotes, run, hist>>

\* steps 1 to 3 of run_daily_review: the overview is built
RunDailyReview(t) ==
    /\ review[t].pc = "idle"
    /\ ReviewsStarted < MaxReviews
    /\ \E overview \in Overviews :
        SetReview(t, [NO_REVIEW EXCEPT !.pc = "get_db", !.overview = overview,
                                       !.n = review[t].n + 1])
    /\ UNCHANGED <<ReviewOthers, mtbl, dbm, ctor>>

\* step 4: from storage import get_db, which may raise ImportError, and
\* db = get_db(), which is DatabaseManager.get_instance():
\* if cls._instance is None
ReviewGetDb(t) ==
    /\ review[t].pc = "get_db"
    /\ ctor[t].pc = "idle"
    /\ \E import_error \in BOOLEAN :
        IF import_error
        THEN /\ SetReview(t, [review[t] EXCEPT !.pc = "log", !.raised = TRUE])
             /\ UNCHANGED <<dbm, ctor>>
        ELSE /\ SetCtor(t, [NO_CALL EXCEPT !.pc = get_next(dbm._instance), !.op = "get"])
             /\ dbm' = [dbm EXCEPT !.ncalls = dbm.ncalls + 1]
             /\ SetReview(t, [review[t] EXCEPT !.pc = "wait_db"])
    /\ UNCHANGED <<ReviewOthers, mtbl>>

\* get_db() is over: run_daily_review has the manager, or the exception of
\* the construction, which the except of step 4 catches
ReviewGotDb(t) ==
    /\ review[t].pc = "wait_db"
    /\ ctor[t].pc \in {"done", "raised"}
    /\ dbm' = [dbm EXCEPT !.returned =
                    IF ctor[t].pc = "done" THEN dbm.returned \cup {ctor[t].ret}
                    ELSE dbm.returned]
    /\ SetCtor(t, [NO_CALL EXCEPT !.op = ctor[t].op, !.ret = ctor[t].ret])
    /\ SetReview(t, IF ctor[t].pc = "done"
                    THEN [review[t] EXCEPT !.pc = "select", !.db = ctor[t].ret]
                    ELSE [review[t] EXCEPT !.pc = "log", !.raised = TRUE])
    /\ UNCHANGED <<ReviewOthers, mtbl>>

\* save_market_overview up to the commit: the session is opened (outside
\* the try), the date is parsed, the row of the date is selected, the JSON
\* of the indices is made and the attributes of the existing row are set or
\* a new record is given to session.add; an exception inside the try goes
\* to the except branch
SaveMarketSelect(t) ==
    /\ review[t].pc = "select"
    /\ \E fault \in Faults :
        LET r == review[t]
            overview == r.overview
            d == overview.date
            record == MarketOverviewModel(overview, indices_json(overview.indices))
        IN  IF r.db = NO_INSTANCE \/ get_session_raises(dbm.objects[r.db])
              THEN SetReview(t, [r EXCEPT !.pc = "log", !.ret = "raise", !.raised = TRUE])
            ELSE IF ~strptime_ok(d)
              THEN SetReview(t, [r EXCEPT !.pc = "log", !.ret = "False"])
            ELSE IF fault # "none"
              THEN SetReview(t, [r EXCEPT !.pc = "log", !.fault = fault,
                                          !.ret = after_rollback(fault),
                                          !.raised = (after_rollback(fault) = "raise")])
            ELSE IF indices_raises(overview.indices)
              THEN SetReview(t, [r EXCEPT !.pc = "log", !.ret = "False"])
            ELSE IF Len(mtbl[d]) > 0
              THEN SetReview(t, [r EXCEPT !.pc = "commit", !.existing = TRUE,
                                          !.loaded = mtbl[d][1], !.cur = record])
              ELSE SetReview(t, [r EXCEPT !.pc = "commit", !.cur = record])
    /\ UNCHANGED <<ReviewOthers, mtbl, dbm, ctor>>

\* session.commit() and return True, or the except branch.  The flush
\* writes the changed columns of the existing row into the row as the table
\* holds it now, or inserts the new record, which fails when the table has
\* got a row of the date (date is unique)
SaveMarketCommit(t) ==
    /\ review[t].pc = "commit"
    /\ \E fault \in Faults :
        LET r == review[t]
            d == r.overview.date
        IN  IF fault # "none"
              THEN /\ mtbl' = mtbl
                   /\ SetReview(t, [r EXCEPT !.pc = "log", !.fault = fault,
                                             !.ret = after_rollback(fault),
                                             !.raised = (after_rollback(fault) = "raise")])
            ELSE IF ~r.existing /\ unique_violation(mtbl, d)
              THEN /\ mtbl' = mtbl
                   /\ SetReview(t, [r EXCEPT !.pc = "log", !.ret = "False"])
            ELSE /\ mtbl' = [mtbl EXCEPT ![d] =
                                IF r.existing
                                THEN <<update_row(mtbl[d][1], r.loaded, r.cur)>>
                                ELSE <<r.cur>>]
                 /\ SetReview(t, [r EXCEPT !.pc = "log", !.ret = "True"])
    /\ UNCHANGED <<ReviewOthers, dbm, ctor>>

\* run_daily_review after the try of step 4: the log line
ReviewLog(t) ==
    /\ review[t].pc = "log"
    /\ SetReview(t, [review[t] EXCEPT !.pc = "done",
                                      !.logged = log_after_save(review[t].raised)])
    /\ UNCHANGED <<ReviewOthers, mtbl, dbm, ctor>>

\* return report
ReviewReturn(t) ==
    /\ review[t].pc = "done"
    /\ SetReview(t, [review[t] EXCEPT !.pc = "idle"])
    /\ UNCHANGED <<ReviewOthers, mtbl, dbm, ctor>>

\* ------------------------------------------------ the program (main.py)
\* analysis_delay of the configuration, in seconds
Delays == {0, 5}

\* how a call ends: it returns, raises an Exception, or the user's
\* KeyboardInterrupt arrives while it runs
Outcomes == {"ok", "raise", "interrupt"}

Args ==
    [market_review : BOOLEAN, schedule : BOOLEAN, webui : BOOLEAN, webui_only : BOOLEAN,
     no_market_review : BOOLEAN]
Configs ==
    [market_review_enabled : BOOLEAN, schedule_enabled : BOOLEAN, webui_enabled : BOOLEAN,
     analysis_delay : Delays]

\* os.getenv("GITHUB_ACTIONS"): not set, or "true"
GithubActions == {"None", "true"}

NO_RUN ==
    [pc |-> "idle", mode |-> "",
     args |-> [market_review |-> FALSE, schedule |-> FALSE, webui |-> FALSE,
               webui_only |-> FALSE, no_market_review |-> FALSE],
     config |-> [market_review_enabled |-> FALSE, schedule_enabled |-> FALSE,
                 webui_enabled |-> FALSE, analysis_delay |-> 0],
     github_actions |-> "None", start_webui |-> FALSE, events |-> << >>, failed |-> FALSE, interrupted |-> FALSE,
     stopped |-> FALSE, code |-> -1]

\* start_webui = (args.webui or args.webui_only or config.webui_enabled)
\*               and os.getenv("GITHUB_ACTIONS") != "true"
start_webui_of(args, config, github_actions) ==
    /\ args.webui \/ args.webui_only \/ config.webui_enabled
    /\ github_actions # "true"

\* the mode main selects
mode_of(args, config) ==
    IF args.webui_only THEN "webui_only"
    ELSE IF args.market_review THEN "market_review"
    ELSE IF args.schedule \/ config.schedule_enabled THEN "schedule"
    ELSE "once"

first_step(mode) ==
    IF mode = "webui_only" THEN "webui_wait"
    ELSE IF mode = "market_review" THEN "review_only"
    ELSE "pipeline"

\* the try of main: what main returns for the way its body ended
exit_code(outcome) ==
    IF outcome = "interrupt" THEN 130 ELSE IF outcome = "raise" THEN 1 ELSE 0

\* the try of run_full_analysis: "except Exception" logs and the function
\* returns, a KeyboardInterrupt goes on to main
after_full_analysis(outcome) == IF outcome = "interrupt" THEN "interrupt" ELSE "ok"

\* config.market_review_enabled and not args.no_market_review
review_runs_ignoresFlag(config, args) == config.market_review_enabled
review_runs(config, args) == config.market_review_enabled /\ ~args.no_market_review

\* the condition of time.sleep(analysis_delay)
delay_waited(config, args) ==
    /\ config.analysis_delay > 0
    /\ config.market_review_enabled
    /\ ~args.no_market_review

Exit(r, outcome) ==
    [r EXCEPT !.pc = "exit", !.code = exit_code(outcome),
              !.interrupted = (outcome = "interrupt")]

ProgramOthers ==
    <<Others, conv, dates, tbl, atbl, job, nsaves, mtbl, review, dbm, ctor, quotes, hist>>

\* main() up to the selection of the mode: the arguments, the configuration
\* and the environment are read, the WebUI is started when start_webui says
\* so (a failure to start it is logged and start_webui stays as it is)
Main ==
    /\ run.pc = "idle"
    /\ \E args \in Args, config \in Configs, github_actions \in GithubActions :
        run' = [NO_RUN EXCEPT !.args = args, !.config = config,
                                 !.github_actions = github_actions,
                                 !.start_webui = start_webui_of(args, config, github_actions),
                                 !.mode = mode_of(args, config),
                                 !.pc = first_step(mode_of(args, config))]
    /\ UNCHANGED ProgramOthers

\* WebUI only: the loop that the user's Ctrl+C ends
WebuiOnlyWait ==
    /\ run.pc = "webui_wait"
    /\ run' = [run EXCEPT !.pc = "exit", !.code = 0, !.stopped = TRUE]
    /\ UNCHANGED ProgramOthers

\* mode 1: run_market_review called by main
ReviewOnly ==
    /\ run.pc = "review_only"
    /\ \E outcome \in Outcomes :
        run' = [Exit(run, outcome) EXCEPT !.failed = (outcome = "raise")]
    /\ UNCHANGED ProgramOthers

\* run_full_analysis: the pipeline is made and pipeline.run is called
PipelineRun ==
    /\ run.pc = "pipeline"
    /\ \E outcome \in Outcomes :
        LET called == Append(run.events, "pipeline.run")
        IN  run' = IF outcome = "ok"
                   THEN [run EXCEPT !.events = Append(called, "pipeline.returned"),
                                    !.pc = "delay"]
                   ELSE IF after_full_analysis(outcome) = "ok"
                   THEN [run EXCEPT !.events = called, !.failed = TRUE, !.pc = "full_end"]
                   ELSE Exit([run EXCEPT !.events = called], outcome)
    /\ UNCHANGED ProgramOthers

\* run_full_analysis: the wait before the market review
Delay ==
    /\ run.pc = "delay"
    /\ IF delay_waited(run.config, run.args)
       THEN \E outcome \in {"ok", "interrupt"} :
            LET slept == [run EXCEPT !.events = Append(run.events, "sleep")]
            IN  run' = IF outcome = "ok" THEN [slept EXCEPT !.pc = "review"]
                       ELSE Exit(slept, outcome)
       ELSE run' = [run EXCEPT !.pc = "review"]
    /\ UNCHANGED ProgramOthers

\* run_full_analysis: the market review
MarketReview ==
    /\ run.pc = "review"
    /\ IF review_runs(run.config, run.args)
       THEN \E outcome \in Outcomes :
            LET called == [run EXCEPT !.events = Append(run.events, "run_market_review")]
            IN  run' = IF outcome = "ok" THEN [called EXCEPT !.pc = "full_end"]
                       ELSE IF after_full_analysis(outcome) = "ok"
                       THEN [called EXCEPT !.failed = TRUE, !.pc = "full_end"]
                       ELSE Exit(called, outcome)
       ELSE run' = [run EXCEPT !.pc = "full_end"]
    /\ UNCHANGED ProgramOthers

\* run_full_analysis has returned: the scheduler goes on (mode 2), or main
\* returns 0, after the WebUI loop when the WebUI was started (mode 3)
FullEnd ==
    /\ run.pc = "full_end"
    /\ run' = IF run.mode = "schedule" THEN [run EXCEPT !.pc = "schedule_wait"]
              ELSE IF run.start_webui THEN [run EXCEPT !.pc = "keepalive"]
              ELSE [run EXCEPT !.pc = "exit", !.code = 0]
    /\ UNCHANGED ProgramOthers

\* mode 2: run_with_schedule after the first run of the task
ScheduleWait ==
    /\ run.pc = "schedule_wait"
    /\ \E outcome \in Outcomes :
        run' = [Exit(run, outcome) EXCEPT !.failed = run.failed \/ outcome = "raise"]
    /\ UNCHANGED ProgramOthers

\* mode 3 with WebUI: the loop that the user's Ctrl+C ends
KeepAlive ==
    /\ run.pc = "keepalive"
    /\ run' = [run EXCEPT !.pc = "exit", !.code = 0, !.stopped = TRUE]
    /\ UNCHANGED ProgramOthers

\* ---------------------------- the history tool (history_analysis.py)
\* a date is the number of its day and the form it is written in; None is
\* an argument that was not given
NO_DATE == [kind |-> "None", day |-> 0, form |-> ""]
Date(day, form) == [kind |-> "date", day |-> day, form |-> form]

\* datetime.now(), as a day
TODAY == 400

ArgDays == {300, 314}
DateForms == {"YYYYMMDD", "YYYY-MM-DD"}
DateArgs == {NO_DATE} \cup {Date(day, form) : day \in ArgDays, form \in DateForms}

\* --period: its choices, and the default of the parser
Periods == {"5d", "1w", "2w", "1m", "3m", "6m", "1y"}
PERIOD_DEFAULT == "1m"
period_default(given) == IF given = "None" THEN PERIOD_DEFAULT ELSE given

\* period_map.get(period, 30)
period_days(period) ==
    CASE period = "5d" -> 5
      [] period = "1w" -> 7
      [] period = "2w" -> 14
      [] period = "1m" -> 30
      [] period = "3m" -> 90
      [] period = "6m" -> 180
      [] period = "1y" -> 365
      [] OTHER -> 30

\* HistoryAnalyzer.normalize_date
normalize_date(date) == IF date.kind = "None" THEN NO_DATE ELSE Date(date.day, "YYYY-MM-DD")

\* HistoryAnalyzer.parse_period
parse_period(period, end_date) ==
    LET end_dt == IF end_date.kind # "None" THEN normalize_date(end_date).day ELSE TODAY
    IN  [start_date |-> Date(end_dt - period_days(period) * 2, "YYYY-MM-DD"),
         end_date |-> Date(end_dt, "YYYY-MM-DD")]

\* HistoryAnalyzer.get_stock_data: the range given to fetcher.get_daily_data
requested_range(start_date, end_date, period) ==
    IF period # "None"
    THEN parse_period(period, end_date)
    ELSE [start_date |-> normalize_date(start_date),
          end_date |-> IF end_date.kind # "None" THEN normalize_date(end_date)
                       ELSE Date(TODAY, "YYYY-MM-DD")]

NO_RANGE == [start_date |-> NO_DATE, end_date |-> NO_DATE]

NO_HISTORY ==
    [pc |-> "idle", given |-> [start_date |-> NO_DATE, end_date |-> NO_DATE, period |-> "None"],
     args |-> [start_date |-> NO_DATE, end_date |-> NO_DATE, period |-> "None"],
     request |-> NO_RANGE, df |-> "None", report |-> FALSE]

HistoryOthers ==
    <<Others, conv, dates, tbl, atbl, job, nsaves, mtbl, review, dbm, ctor, quotes, run>>

\* main() of the tool: the command line is parsed and analyzer.run is
\* called with args.start_date, args.end_date and args.period
HistoryMain ==
    /\ hist.pc = "idle"
    /\ \E start_date \in DateArgs, end_date \in DateArgs, period \in Periods \cup {"None"} :
        hist' = [NO_HISTORY EXCEPT
                    !.pc = "get_stock_data",
                    !.given = [start_date |-> start_date, end_date |-> end_date,
                               period |-> period],
                    !.args = [start_date |-> start_date, end_date |-> end_date,
                              period |-> period_default(period)]]
    /\ UNCHANGED HistoryOthers

\* run and get_stock_data: the range is made and the fetcher is asked
GetStockData ==
    /\ hist.pc = "get_stock_data"
    /\ \E df \in {"None", "empty", "rows"} :
        hist' = [hist EXCEPT
                    !.pc = "fetched",
                    !.request = requested_range(hist.args.start_date, hist.args.end_date,
                                                hist.args.period),
                    !.df = df]
    /\ UNCHANGED HistoryOthers

\* run: without data None is returned, with data the report is made
HistoryReport ==
    /\ hist.pc = "fetched"
    /\ hist' = [hist EXCEPT !.pc = "done", !.report = (hist.df = "rows")]
    /\ UNCHANGED HistoryOthers

\* ---------------------------------------------------------- specifications
\* no program around the two classes under way
NoPrograms ==
    /\ mtbl = EMPTY_MARKET
    /\ review = [t \in Threads |-> NO_REVIEW]
    /\ dbm = NO_MANAGER
    /\ ctor = [t \in Threads |-> NO_CALL]
    /\ quotes = NO_QUOTES
    /\ run = NO_RUN
    /\ hist = NO_HISTORY

\* the threads at rest and no provider call made yet
Rest ==
    /\ NoPrograms
    /\ pc = [t \in Threads |-> "idle"]
    /\ self = [t \in Threads |-> 1]
    /\ op = [t \in Threads |-> ""]
    /\ calls = [t \in Threads |-> <<>>]
    /\ loc = [t \in Threads |-> EMPTY_DICT]
    /\ ret = [t \in Threads |-> PENDING]
    /\ loginCalls = 0
    /\ loginOk = 0
    /\ logoutCalls = 0
    /\ nops = 0
    /\ tsRaised = 0
    /\ abandoned = [t \in Threads |-> FALSE]

\* no date range under way; the database as create_all leaves it, no call of
\* the DatabaseManager under way
NoDates == dates = NO_DATES

\* what stock_daily may hold of earlier runs: a row of the first code
PriorKeys == {<<"600519", "2024-01-02">>}
PriorTables ==
    {[k \in Keys |-> IF k \in ks THEN <<StockDaily("10.0", "TuShare")>> ELSE << >>] :
        ks \in SUBSET PriorKeys}

NoStore ==
    /\ tbl = EMPTY_TABLE
    /\ atbl = EMPTY_TABLE
    /\ job = [t \in Threads |-> NO_JOB]
    /\ nsaves = 0

\* one DataSourceFallback object, constructed with any token and any outcome
\* of the TuShare initialisation
Init ==
    /\ \E tok \in Tokens, imp \in {"ok", "raise"} :
        objs = [o \in Objs |-> IF o = 1 THEN DataSourceFallback(tok, imp) ELSE NO_OBJECT]
    /\ Rest
    /\ conv = NO_CODE
    /\ NoDates
    /\ NoStore

\* Spec: one thread calls the methods of the object one after the other
Next == Step(1)

Spec == Init /\ [][Next]_vars

\* ConcSpec: two threads call the methods of one object; a thread switch can
\* happen between any two steps (the interpreter releases its lock around
\* the network calls of the providers and between bytecodes).  No mutual
\* exclusion exists in the class.  To keep the state space small a data call
\* of a provider either raises or delivers a table of 1..MaxConcRows rows;
\* bs.login and bs.logout answer as in Spec.
ConcAnswer(a) ==
    \/ a.kind \in {"raise", "lg", "ok"}
    \/ a.n >= 1 /\ a.n <= MaxConcRows /\ a.error_code \in {"", BS_OK}

ConcBound ==
    /\ nops <= MaxConcOps
    /\ \A t \in Threads : \A i \in 1..Len(calls[t]) : ConcAnswer(calls[t][i].ans)

ConcNext ==
    \/ \E t \in Threads : StartDaily(t) /\ ConcBound'
    \/ \E t \in Threads : TsDaily(t) /\ ConcBound'
    \/ \E t \in Threads : StartFinancial(t) /\ ConcBound'
    \/ \E t \in Threads : LoginCheck(t) /\ ConcBound'
    \/ \E t \in Threads : LoginCall(t) /\ ConcBound'
    \/ \E t \in Threads : BsHistory(t) /\ ConcBound'
    \/ \E t \in Threads : AkHist(t) /\ ConcBound'
    \/ \E t \in Threads : BsProfit(t) /\ ConcBound'
    \/ \E t \in Threads : BsBalance(t) /\ ConcBound'
    \/ \E t \in Threads : BsCash(t) /\ ConcBound'
    \/ \E t \in Threads : AkBalance(t) /\ ConcBound'
    \/ \E t \in Threads : AkProfit(t) /\ ConcBound'
    \/ \E t \in Threads : AkCashflow(t) /\ ConcBound'
    \/ \E t \in Threads : StartLogout(t) /\ ConcBound'
    \/ \E t \in Threads : StartDel(t) /\ ConcBound'
    \/ \E t \in Threads : LogoutCheck(t) /\ ConcBound'
    \/ \E t \in Threads : LogoutCall(t) /\ ConcBound'
    \/ \E t \in Threads : Finish(t) /\ ConcBound'

ConcSpec == Init /\ [][ConcNext]_vars

\* MultiSpec: two DataSourceFallback objects live in one process and one
\* thread calls their methods one after the other.  bs is the one baostock
\* module of the process; each object keeps its own baostock_logged_in.
MultiInit ==
    /\ \E tok \in Tokens, imp \in {"ok", "raise"} :
        objs = [o \in Objs |-> DataSourceFallback(tok, imp)]
    /\ Rest
    /\ conv = NO_CODE
    /\ NoDates
    /\ NoStore

MultiBound ==
    /\ nops <= MaxMultiOps
    /\ \A i \in 1..Len(calls[1]) : ConcAnswer(calls[1][i].ans)

MultiNext ==
    \/ StartDaily(1) /\ MultiBound'
    \/ TsDaily(1) /\ MultiBound'
    \/ StartFinancial(1) /\ MultiBound'
    \/ LoginCheck(1) /\ MultiBound'
    \/ LoginCall(1) /\ MultiBound'
    \/ BsHistory(1) /\ MultiBound'
    \/ AkHist(1) /\ MultiBound'
    \/ BsProfit(1) /\ MultiBound'
    \/ BsBalance(1) /\ MultiBound'
    \/ BsCash(1) /\ MultiBound'
    \/ AkBalance(1) /\ MultiBound'
    \/ AkProfit(1) /\ MultiBound'
    \/ AkCashflow(1) /\ MultiBound'
    \/ StartLogout(1) /\ MultiBound'
    \/ StartDel(1) /\ MultiBound'
    \/ LogoutCheck(1) /\ MultiBound'
    \/ LogoutCall(1) /\ MultiBound'
    \/ Finish(1) /\ MultiBound'

MultiSpec == MultiInit /\ [][MultiNext]_vars

\* CodeSpec: a code converter is applied to a code, and then either the same
\* converter is applied to its result or the result is taken back to the bare
\* code.
CodeInit ==
    /\ objs = [o \in Objs |-> NO_OBJECT]
    /\ Rest
    /\ \E code \in Codes :
        conv = [input |-> code, stage |-> "new", first |-> NoResult, second |-> NoResult]
    /\ NoDates
    /\ NoStore

ConvertTushare ==
    /\ conv.stage = "new"
    /\ conv' = [conv EXCEPT !.stage = "ts", !.first = convert_to_tushare_code(conv.input)]
    /\ UNCHANGED <<Others, Beside>>

ConvertBaostock ==
    /\ conv.stage = "new"
    /\ conv' = [conv EXCEPT !.stage = "bs", !.first = convert_to_baostock_code(conv.input)]
    /\ UNCHANGED <<Others, Beside>>

TushareAgain ==
    /\ conv.stage = "ts"
    /\ conv.first.kind = "str"
    /\ conv' = [conv EXCEPT !.stage = "ts_ts", !.second = convert_to_tushare_code(conv.first.val)]
    /\ UNCHANGED <<Others, Beside>>

BaostockAgain ==
    /\ conv.stage = "bs"
    /\ conv.first.kind = "str"
    /\ conv' = [conv EXCEPT !.stage = "bs_bs", !.second = convert_to_baostock_code(conv.first.val)]
    /\ UNCHANGED <<Others, Beside>>

BackFromTushare ==
    /\ conv.stage = "ts"
    /\ conv.first.kind = "str"
    /\ conv' = [conv EXCEPT !.stage = "ts_back", !.second = StrResult(fromCanonical(conv.first.val))]
    /\ UNCHANGED <<Others, Beside>>

BackFromBaostock ==
    /\ conv.stage = "bs"
    /\ conv.first.kind = "str"
    /\ conv' = [conv EXCEPT !.stage = "bs_back", !.second = StrResult(fromCanonical(conv.first.val))]
    /\ UNCHANGED <<Others, Beside>>

CodeNext ==
    \/ ConvertTushare
    \/ ConvertBaostock
    \/ TushareAgain
    \/ BaostockAgain
    \/ BackFromTushare
    \/ BackFromBaostock

CodeSpec == CodeInit /\ [][CodeNext]_vars

\* CancelSpec: as Spec, and the caller may give a running request up at any
\* moment.  The provider answers are those of ConcSpec.
CancelBound == \A i \in 1..Len(calls[1]) : ConcAnswer(calls[1][i].ans)

CancelNext ==
    \/ StartDaily(1) /\ CancelBound'
    \/ TsDaily(1) /\ CancelBound'
    \/ StartFinancial(1) /\ CancelBound'
    \/ LoginCheck(1) /\ CancelBound'
    \/ LoginCall(1) /\ CancelBound'
    \/ BsHistory(1) /\ CancelBound'
    \/ AkHist(1) /\ CancelBound'
    \/ BsProfit(1) /\ CancelBound'
    \/ BsBalance(1) /\ CancelBound'
    \/ BsCash(1) /\ CancelBound'
    \/ AkBalance(1) /\ CancelBound'
    \/ AkProfit(1) /\ CancelBound'
    \/ AkCashflow(1) /\ CancelBound'
    \/ StartLogout(1) /\ CancelBound'
    \/ StartDel(1) /\ CancelBound'
    \/ LogoutCheck(1) /\ CancelBound'
    \/ LogoutCall(1) /\ CancelBound'
    \/ Finish(1) /\ CancelBound'
    \/ Abandon(1) /\ CancelBound'

CancelSpec == Init /\ [][CancelNext]_vars

\* DateSpec: the date arguments of get_daily_data for a range of two dates
DateInit ==
    /\ objs = [o \in Objs |-> NO_OBJECT]
    /\ Rest
    /\ conv = NO_CODE
    /\ NoStore
    /\ \E y \in Years, m \in Months, d \in Days, y2 \in Years, m2 \in Months, d2 \in Days :
        dates = [NO_DATES EXCEPT !.y = y, !.m = m, !.d = d, !.y2 = y2, !.m2 = m2, !.d2 = d2,
                                 !.stage = "new"]

DateNext == NormaliseDates

DateSpec == DateInit /\ [][DateNext]_vars

\* StoreSpec: one thread calls save_daily_data and save_analysis_result of
\* the DatabaseManager one after the other
StoreInit ==
    /\ objs = [o \in Objs |-> NO_OBJECT]
    /\ Rest
    /\ conv = NO_CODE
    /\ NoDates
    /\ tbl \in PriorTables
    /\ atbl = EMPTY_TABLE
    /\ job = [t \in Threads |-> NO_JOB]
    /\ nsaves = 0

StoreNext ==
    \/ SaveDailyStart(1)
    \/ SaveDailyRow(1)
    \/ SaveDailyCommit(1)
    \/ SaveAnalysisStart(1)
    \/ SaveAnalysisSelect(1)
    \/ SaveAnalysisCommit(1)
    \/ SaveFinish(1)

StoreSpec == StoreInit /\ [][StoreNext]_vars

\* ConcStoreSpec: two threads call them, each call with its own Session; a
\* thread switch can happen between any two statements of the database
ConcStoreBound ==
    /\ nsaves <= MaxConcSaves
    /\ \A t \in Threads :
        \A i \in 1..Len(job[t].df.rows) : job[t].df.rows[i].date # BAD_DATE

ConcStoreNext ==
    \/ \E t \in Threads : SaveDailyStart(t) /\ ConcStoreBound'
    \/ \E t \in Threads : SaveDailyRow(t) /\ ConcStoreBound'
    \/ \E t \in Threads : SaveDailyCommit(t) /\ ConcStoreBound'
    \/ \E t \in Threads : SaveAnalysisStart(t) /\ ConcStoreBound'
    \/ \E t \in Threads : SaveAnalysisSelect(t) /\ ConcStoreBound'
    \/ \E t \in Threads : SaveAnalysisCommit(t) /\ ConcStoreBound'
    \/ \E t \in Threads : SaveFinish(t) /\ ConcStoreBound'

ConcStoreSpec == StoreInit /\ [][ConcStoreNext]_vars

\* nothing of DataSourceFallback and of the stock tables under way
Quiet ==
    /\ objs = [o \in Objs |-> NO_OBJECT]
    /\ pc = [t \in Threads |-> "idle"]
    /\ self = [t \in Threads |-> 1]
    /\ op = [t \in Threads |-> ""]
    /\ calls = [t \in Threads |-> <<>>]
    /\ loc = [t \in Threads |-> EMPTY_DICT]
    /\ ret = [t \in Threads |-> PENDING]
    /\ loginCalls = 0
    /\ loginOk = 0
    /\ logoutCalls = 0
    /\ nops = 0
    /\ tsRaised = 0
    /\ abandoned = [t \in Threads |-> FALSE]
    /\ conv = NO_CODE
    /\ NoDates
    /\ NoStore

\* ReviewSpec: run_daily_review is called several times on a database that
\* may hold the overview of an earlier run
ReviewInit ==
    /\ Quiet
    /\ mtbl \in PriorMarkets
    /\ review = [t \in Threads |-> NO_REVIEW]
    /\ dbm = NO_MANAGER
    /\ ctor = [t \in Threads |-> NO_CALL]
    /\ quotes = NO_QUOTES
    /\ run = NO_RUN
    /\ hist = NO_HISTORY

ReviewNext ==
    \/ RunDailyReview(1)
    \/ ReviewGetDb(1)
    \/ NewCheck(1)
    \/ NewAlloc(1)
    \/ NewFlag(1)
    \/ NewRet(1)
    \/ InitCheck(1)
    \/ InitEngine(1)
    \/ InitTables(1)
    \/ InitDone(1)
    \/ GetRet(1)
    \/ ReviewGotDb(1)
    \/ SaveMarketSelect(1)
    \/ SaveMarketCommit(1)
    \/ ReviewLog(1)
    \/ ReviewReturn(1)

ReviewSpec == ReviewInit /\ [][ReviewNext]_vars

\* ConcReviewSpec: two threads of the process run the review at once
ConcReviewNext ==
    \/ \E t \in Threads : RunDailyReview(t)
    \/ \E t \in Threads : ReviewGetDb(t)
    \/ \E t \in Threads : NewCheck(t)
    \/ \E t \in Threads : NewAlloc(t)
    \/ \E t \in Threads : NewFlag(t)
    \/ \E t \in Threads : NewRet(t)
    \/ \E t \in Threads : InitCheck(t)
    \/ \E t \in Threads : InitEngine(t)
    \/ \E t \in Threads : InitTables(t)
    \/ \E t \in Threads : InitDone(t)
    \/ \E t \in Threads : GetRet(t)
    \/ \E t \in Threads : ReviewGotDb(t)
    \/ \E t \in Threads : SaveMarketSelect(t)
    \/ \E t \in Threads : SaveMarketCommit(t)
    \/ \E t \in Threads : ReviewLog(t)
    \/ \E t \in Threads : ReviewReturn(t)

ConcReviewSpec == ReviewInit /\ [][ConcReviewNext]_vars

\* SingletonSpec: the threads of the process construct the DatabaseManager,
\* ask for the instance and reset it; the engine and the tables can be
\* created
SingletonInit ==
    /\ Quiet
    /\ NoPrograms

SingletonBound == \A t \in Threads : ~ctor[t].db_fault

SingletonNext ==
    \/ \E t \in Threads : CallNew(t) /\ SingletonBound'
    \/ \E t \in Threads : NewCheck(t) /\ SingletonBound'
    \/ \E t \in Threads : NewAlloc(t) /\ SingletonBound'
    \/ \E t \in Threads : NewFlag(t) /\ SingletonBound'
    \/ \E t \in Threads : NewRet(t) /\ SingletonBound'
    \/ \E t \in Threads : InitCheck(t) /\ SingletonBound'
    \/ \E t \in Threads : InitEngine(t) /\ SingletonBound'
    \/ \E t \in Threads : InitTables(t) /\ SingletonBound'
    \/ \E t \in Threads : InitDone(t) /\ SingletonBound'
    \/ \E t \in Threads : GetInstance(t) /\ SingletonBound'
    \/ \E t \in Threads : GetRet(t) /\ SingletonBound'
    \/ \E t \in Threads : ResetInstance(t) /\ SingletonBound'
    \/ \E t \in Threads : ResetDispose(t) /\ SingletonBound'
    \/ \E t \in Threads : ResetAssign(t) /\ SingletonBound'
    \/ \E t \in Threads : CtorFinish(t) /\ SingletonBound'

SingletonSpec == SingletonInit /\ [][SingletonNext]_vars

\* SeqSingletonSpec: the same calls made by one thread, with a database
\* that may refuse the engine or the tables
SeqSingletonNext ==
    \/ CallNew(1)
    \/ NewCheck(1)
    \/ NewAlloc(1)
    \/ NewFlag(1)
    \/ NewRet(1)
    \/ InitCheck(1)
    \/ InitEngine(1)
    \/ InitTables(1)
    \/ InitDone(1)
    \/ GetInstance(1)
    \/ GetRet(1)
    \/ ResetInstance(1)
    \/ ResetDispose(1)
    \/ ResetAssign(1)
    \/ CtorFinish(1)

SeqSingletonSpec == SingletonInit /\ [][SeqSingletonNext]_vars

\* QuotesSpec: _get_main_indices is called for realtime quotes
QuotesInit ==
    /\ Quiet
    /\ NoPrograms

QuotesNext ==
    \/ GetMainIndices
    \/ SpotEm
    \/ SpotSina
    \/ FetchQq
    \/ BuildIndices
    \/ QuotesReturn

QuotesSpec == QuotesInit /\ [][QuotesNext]_vars

\* MainSpec: one run of main() with any arguments and configuration
MainInit ==
    /\ Quiet
    /\ NoPrograms

MainNext ==
    \/ Main
    \/ WebuiOnlyWait
    \/ ReviewOnly
    \/ PipelineRun
    \/ Delay
    \/ MarketReview
    \/ FullEnd
    \/ ScheduleWait
    \/ KeepAlive

MainSpec == MainInit /\ [][MainNext]_vars

\* HistorySpec: one run of the history tool for one stock
HistoryInit ==
    /\ Quiet
    /\ NoPrograms

HistoryNext ==
    \/ HistoryMain
    \/ GetStockData
    \/ HistoryReport

HistorySpec == HistoryInit /\ [][HistoryNext]_vars

\* ============================================================== properties
\* the provider a mock function belongs to, its name in results and its rank
\* in the daily chain
ProviderOf(fn) ==
    CASE fn = "ts.daily" -> "TuShare"
      [] fn \in {"bs.login", "bs.logout", "bs.query_history_k_data_plus",
                 "bs.query_profit_data", "bs.query_balance_data",
                 "bs.query_cash_flow_data"} -> "Baostock"
      [] OTHER -> "AkShare"

Rank(name) == CASE name = "TuShare" -> 0 [] name = "Baostock" -> 1 [] OTHER -> 2

\* the daily-history functions of the three providers
DailyFns == {"ts.daily", "bs.query_history_k_data_plus", "ak.stock_zh_a_hist"}

\* an answer of a daily-history function that holds rows
HasRows(a) == a.kind \in {"df", "rs"} /\ a.error_code \in {"", BS_OK} /\ a.n > 0

\* an answer of zero rows, or None
ZeroRows(a) == a.kind = "None" \/ (a.kind \in {"df", "rs"} /\ a.error_code \in {"", BS_OK} /\ a.n = 0)

\* a call that did not give its provider's request a result
FailedCall(c) ==
    IF c.fn = "bs.login" THEN ~(c.ans.kind = "lg" /\ c.ans.error_code = BS_OK)
    ELSE ~HasRows(c.ans)

\* the providers attempted by the running operation, in the order of their
\* first call
RECURSIVE Attempted(_)
Attempted(cs) ==
    IF cs = <<>> THEN <<>>
    ELSE LET before == Attempted(SubSeq(cs, 1, Len(cs) - 1))
             p == ProviderOf(cs[Len(cs)].fn)
         IN  IF \E i \in 1..Len(before) : before[i] = p THEN before ELSE Append(before, p)

\* the per-provider reasons a returned text carries: the failure text is the
\* one literal ALL_FAILED whatever was attempted, and holds none
reasons_in(text) == IF text = ALL_FAILED THEN <<>> ELSE <<text>>

InRequest(t) == op[t] \in {"daily", "fin"} /\ pc[t] # "idle"
Returned(t) == pc[t] = "done" /\ ret[t].kind = "return"
FailedRequest(t) == InRequest(t) /\ Returned(t) /\ ret[t].df = NONE

\* C1: first success wins.  In get_daily_data, as soon as the daily-history
\* call of a provider has answered with rows, that call is the last call of
\* the request, the request has returned, and it returned those rows with
\* that provider's name: no provider of a greater rank is called.
C1_FirstSuccessWins ==
    \A t \in Threads :
        op[t] = "daily" =>
            \A i \in 1..Len(calls[t]) :
                (calls[t][i].fn \in DailyFns /\ HasRows(calls[t][i].ans)) =>
                    /\ i = Len(calls[t])
                    /\ Returned(t)
                    /\ ret[t].df.kind = "df"
                    /\ ret[t].df.n = calls[t][i].ans.n
                    /\ ret[t].text = ProviderOf(calls[t][i].fn)

\* a request that Baostock served after TuShare had been called and failed
C1_Witness ==
    \E t \in Threads :
        /\ op[t] = "daily" /\ Returned(t)
        /\ Len(calls[t]) >= 2
        /\ calls[t][1].fn = "ts.daily"
        /\ calls[t][Len(calls[t])].fn = "bs.query_history_k_data_plus"
        /\ ret[t].text = "Baostock" /\ ret[t].df.n > 0

\* C2: providers are tried in ascending priority order, the same in every
\* request.  In get_daily_data the ranks of the calls never decrease, and
\* when a provider is called every usable provider of a smaller rank
\* (TuShare when tushare_api is set, Baostock always) has been called before
\* in this request and its last call before failed.
C2_AscendingPriority ==
    \A t \in Threads :
        op[t] = "daily" =>
            \A j \in 1..Len(calls[t]) :
                LET pj == ProviderOf(calls[t][j].fn)
                    usable(p) == p = "Baostock" \/ (p = "TuShare" /\ Truthy(objs[self[t]].tushare_api))
                IN  /\ \A i \in 1..(j - 1) : Rank(ProviderOf(calls[t][i].fn)) <= Rank(pj)
                    /\ \A p \in {"TuShare", "Baostock"} :
                        (Rank(p) < Rank(pj) /\ usable(p)) =>
                            \E i \in 1..(j - 1) :
                                /\ ProviderOf(calls[t][i].fn) = p
                                /\ FailedCall(calls[t][i])
                                /\ \A k \in (i + 1)..(j - 1) : ProviderOf(calls[t][k].fn) # p

\* a request that went through the whole chain: TuShare, the Baostock login,
\* the Baostock query, AkShare
C2_Witness ==
    \E t \in Threads :
        /\ op[t] = "daily" /\ Returned(t)
        /\ Len(calls[t]) = 4
        /\ calls[t][1].fn = "ts.daily"
        /\ calls[t][2].fn = "bs.login"
        /\ calls[t][3].fn = "bs.query_history_k_data_plus"
        /\ calls[t][4].fn = "ak.stock_zh_a_hist"

\* C3: when every provider attempted for a request failed, the failure that
\* get_daily_data / get_financial_data returns carries one reason per
\* attempted provider, in priority order.
C3_ReasonPerAttempt ==
    \A t \in Threads :
        FailedRequest(t) =>
            Len(reasons_in(ret[t].text)) = Len(Attempted(calls[t]))

\* C4: in get_daily_data, when the daily-history call of a provider answered
\* with zero rows or None and the daily-history call of the next provider
\* answered with rows, the request has returned the rows of the next
\* provider together with the name of the next provider.
C4_EmptyThenNext ==
    \A t \in Threads :
        op[t] = "daily" =>
            \A i \in 1..Len(calls[t]) : \A j \in (i + 1)..Len(calls[t]) :
                ( /\ calls[t][i].fn \in DailyFns
                  /\ calls[t][j].fn \in DailyFns
                  /\ ZeroRows(calls[t][i].ans)
                  /\ Rank(ProviderOf(calls[t][j].fn)) = Rank(ProviderOf(calls[t][i].fn)) + 1
                  /\ HasRows(calls[t][j].ans) ) =>
                    /\ Returned(t)
                    /\ ret[t].text = ProviderOf(calls[t][j].fn)
                    /\ ret[t].df.kind = "df"
                    /\ ret[t].df.n = calls[t][j].ans.n
                    /\ ret[t].df.cols = calls[t][j].ans.cols

\* TuShare answered an empty table and Baostock, already logged in, answered
\* with the largest table
C4_Witness ==
    \E t \in Threads :
        /\ op[t] = "daily" /\ Returned(t)
        /\ Len(calls[t]) = 2
        /\ calls[t][1].fn = "ts.daily"
        /\ calls[t][1].ans.kind = "df" /\ calls[t][1].ans.n = 0
        /\ calls[t][2].fn = "bs.query_history_k_data_plus"
        /\ calls[t][2].ans.n = MaxRows
        /\ ret[t].text = "Baostock"

\* C5: get_financial_data returns (result, provider name) only when the
\* result holds statement rows; a provider that answered with zero rows is a
\* failed provider.
C5_FinancialHasRows ==
    \A t \in Threads :
        (op[t] = "fin" /\ Returned(t) /\ ret[t].text \in {"Baostock", "AkShare"}) =>
            \E k \in DOMAIN ret[t].dict :
                ret[t].dict[k].kind = "df" /\ ret[t].dict[k].n > 0

\* C6: a provider whose credential is missing is never attempted.  On an
\* object constructed without token, or whose TuShare initialisation failed
\* (tushare_api is None), no operation calls the TuShare API.
C6_NoCredentialNoCall ==
    \A t \in Threads :
        (~Truthy(objs[self[t]].tushare_token) \/ ~Truthy(objs[self[t]].tushare_api)) =>
            /\ pc[t] # "ts_daily"
            /\ \A i \in 1..Len(calls[t]) : ProviderOf(calls[t][i].fn) # "TuShare"

\* a finished daily request, with provider calls, on an object that was
\* given a token but whose TuShare initialisation failed
C6_Witness ==
    \E t \in Threads :
        /\ op[t] = "daily" /\ Returned(t)
        /\ Truthy(objs[self[t]].tushare_token)
        /\ ~Truthy(objs[self[t]].tushare_api)
        /\ Len(calls[t]) >= 2

\* C7: no provider-level failure reaches the caller as an exception.  No
\* operation ends by raising, and a finished get_daily_data or
\* get_financial_data has returned a pair.
C7_NeverRaises ==
    \A t \in Threads :
        /\ pc[t] # "raised"
        /\ ret[t].kind # "raise"
        /\ (InRequest(t) /\ pc[t] = "done") => ret[t].kind = "return"

\* a request that returned although the login and the last provider raised
C7_Witness ==
    \E t \in Threads :
        /\ InRequest(t) /\ Returned(t)
        /\ \E i \in 1..Len(calls[t]) : calls[t][i].fn = "bs.login" /\ calls[t][i].ans = RAISE
        /\ calls[t][Len(calls[t])].ans = RAISE
        /\ ProviderOf(calls[t][Len(calls[t])].fn) = "AkShare"

\* C8: a failed Baostock login (error code not "0", or bs.login raised) does
\* not abort the request.  The call that follows it is a call of AkShare (or
\* the request stands right before that call), and in get_daily_data, when
\* that call answered with rows, the request has returned them as AkShare's.
C8_LoginFailureFallsThrough ==
    \A t \in Threads :
        InRequest(t) =>
            \A i \in 1..Len(calls[t]) :
                (calls[t][i].fn = "bs.login" /\ FailedCall(calls[t][i])) =>
                    IF i = Len(calls[t])
                      THEN pc[t] = (IF op[t] = "daily" THEN "ak_hist" ELSE "ak_balance")
                      ELSE /\ ProviderOf(calls[t][i + 1].fn) = "AkShare"
                           /\ (op[t] = "daily" /\ HasRows(calls[t][i + 1].ans)) =>
                                /\ Returned(t)
                                /\ ret[t] = ReturnDf(calls[t][i + 1].ans, "AkShare")

\* the login was rejected and AkShare's rows were returned
C8_Witness ==
    \E t \in Threads :
        /\ op[t] = "daily" /\ Returned(t)
        /\ \E i \in 1..Len(calls[t]) :
            calls[t][i].fn = "bs.login" /\ calls[t][i].ans.error_code = BS_ERR
        /\ ret[t].text = "AkShare" /\ ret[t].df.n > 0

\* C9: session acquisition is idempotent.  While baostock_logged_in of the
\* object is set, no step calls bs.login, and a _login_baostock that reads
\* the flag returns True: its caller enters the Baostock branch.
C9_LoginIdempotent ==
    [][\A t \in Threads :
        objs[self[t]].baostock_logged_in =>
            /\ loginCalls' = loginCalls
            /\ (pc[t] = "login_check" /\ pc'[t] # pc[t]) => pc'[t] = login_true_next(op[t])]_vars

\* a later request that entered the Baostock branch without a login call,
\* on the session a former request created
C9_Witness ==
    \E t \in Threads :
        /\ InRequest(t)
        /\ nops >= 2 /\ loginOk = 1 /\ loginCalls = 1 /\ logoutCalls = 0
        /\ objs[self[t]].baostock_logged_in
        /\ pc[t] \in {"bs_history", "bs_profit"}
        /\ \A i \in 1..Len(calls[t]) : calls[t][i].fn # "bs.login"

\* C10: two requests that acquire the Baostock session concurrently cause
\* one login call.  As long as bs.logout was never called, at most one
\* bs.login call of the process has answered with success.
C10_OneLoginWhenConcurrent == logoutCalls = 0 => loginOk <= 1

\* C11: at most one Baostock session is active in the process at any moment,
\* also when several DataSourceFallback objects exist.  The logins that
\* succeeded exceed the logout calls made so far by one at most.
C11_OneSessionProcessWide == loginOk - logoutCalls <= 1

\* C12: the Baostock session is acquired lazily.  No login call is made
\* before the first operation; a get_daily_data request whose ts.daily call
\* answered with rows makes no login call; every login call is made inside a
\* request after nothing but TuShare calls that gave no rows, and the
\* Baostock queries are reached only after a login has succeeded.
C12_LazyAcquisition ==
    /\ nops = 0 => loginCalls = 0
    /\ \A t \in Threads :
        /\ (/\ op[t] = "daily"
            /\ Len(calls[t]) >= 1
            /\ calls[t][1].fn = "ts.daily"
            /\ HasRows(calls[t][1].ans))
              => /\ pc[t] \notin {"login_check", "login_call"}
                 /\ \A i \in 1..Len(calls[t]) : calls[t][i].fn # "bs.login"
        /\ \A i \in 1..Len(calls[t]) :
              calls[t][i].fn = "bs.login" =>
                  /\ InRequest(t)
                  /\ \A j \in 1..(i - 1) :
                        calls[t][j].fn = "ts.daily" /\ ~HasRows(calls[t][j].ans)
        /\ pc[t] \in {"bs_history", "bs_profit", "bs_balance", "bs_cash"} => loginOk >= 1

\* a second operation, a daily request whose TuShare call gave nothing, has
\* just made the first login call of the process
C12_Witness ==
    \E t \in Threads :
        /\ op[t] = "daily" /\ nops >= 2
        /\ Truthy(objs[self[t]].tushare_api)
        /\ loginCalls = 1
        /\ Len(calls[t]) = 2
        /\ calls[t][1].fn = "ts.daily"
        /\ calls[t][2].fn = "bs.login"

\* C13: the provider's logout is called exactly once per successful login.
\* There are never more logout calls than successful logins, and once the
\* object is destroyed and its destructor has returned there are as many.
C13_OneLogoutPerLogin ==
    /\ logoutCalls <= loginOk
    /\ (\A o \in Objs : objs[o].phase # "live") /\ (\A t \in Threads : pc[t] = "idle")
          => logoutCalls = loginOk

\* C14: when an object that holds a session is destroyed, logout is
\* attempted.  Destruction, while the program runs or at its exit, enters
\* _logout_baostock, which from its test goes on to the logout when the
\* object's flag is set, and the bs.logout() call is made.
C14_ReleaseAtTeardown ==
    [][/\ \A o \in Objs :
            (objs[o].phase = "live" /\ objs'[o].phase # "live") =>
                \E t \in Threads : self'[t] = o /\ op'[t] = "del" /\ pc'[t] = "logout_check"
       /\ \A t \in Threads :
            (op[t] = "del" /\ objs[self[t]].baostock_logged_in /\ pc'[t] # pc[t]) =>
                /\ pc[t] = "logout_check" => pc'[t] = "logout_call"
                /\ pc[t] = "logout_call" =>
                      /\ logoutCalls' = logoutCalls + 1
                      /\ Len(calls'[t]) > 0
                      /\ calls'[t][Len(calls'[t])].fn = "bs.logout"]_vars

\* C15: release is idempotent and safe without a session.  A release that
\* finds no session makes no logout call, changes no object and returns
\* None; a release that made the logout call returns and leaves the object
\* without a session, so that a release that follows it makes no call.
C15_ReleaseIdempotent ==
    [][\A t \in Threads :
        (op[t] \in {"logout", "del"} /\ pc'[t] # pc[t]) =>
            /\ (pc[t] = "logout_check" /\ ~objs[self[t]].baostock_logged_in) =>
                  /\ pc'[t] = "done"
                  /\ ret'[t] = ReturnNone
                  /\ objs' = objs
                  /\ logoutCalls' = logoutCalls
                  /\ calls' = calls
            /\ pc[t] = "logout_call" =>
                  /\ pc'[t] = "done"
                  /\ ~objs'[self[t]].baostock_logged_in]_vars

\* C16: a failure of bs.logout() is logged and not escalated.  For every
\* bs.logout() call that raised, a log record was emitted and the release
\* did not raise.
C16_LogoutFailureLogged ==
    \A t \in Threads :
        \A i \in 1..Len(calls[t]) :
            (calls[t][i].fn = "bs.logout" /\ calls[t][i].ans.kind = "raise") =>
                /\ calls[t][i].warned
                /\ pc[t] # "raised"

\* the market tag the leading character of a bare code stands for
RecognizedLead(c) == Len(c) > 0 /\ c[1] \in {"6", "0", "3", "8", "4"}

MarketOf(c) ==
    IF Len(c) = 0 THEN <<"S", "H">>
    ELSE CASE c[1] = "6" -> <<"S", "H">>
           [] c[1] \in {"0", "3"} -> <<"S", "Z">>
           [] c[1] \in {"8", "4"} -> <<"B", "J">>
           [] OTHER -> <<"S", "H">>

EndsWith(s, e) == Len(s) >= Len(e) /\ SubSeq(s, Len(s) - Len(e) + 1, Len(s)) = e
StartsWith(s, b) == Len(s) >= Len(b) /\ SubSeq(s, 1, Len(b)) = b

\* C17: market inference from the leading digit.  For every code without a
\* dot, _convert_to_tushare_code returns the code followed by .SH, .SZ or .BJ
\* chosen by the first character (6; 0 or 3; 8 or 4; anything else .SH) and
\* _convert_to_baostock_code returns sh., sz. or bj. by the same rule followed
\* by the code; 000001 gives sz.000001.
C17_MarketFromLeadingDigit ==
    /\ (conv.stage = "ts" /\ ~has_dot(conv.input)) =>
          conv.first = StrResult(conv.input \o DOT \o MarketOf(conv.input))
    /\ (conv.stage = "bs" /\ ~has_dot(conv.input)) =>
          conv.first = StrResult(lower(MarketOf(conv.input)) \o DOT \o conv.input)
    /\ (conv.stage = "bs" /\ conv.input = <<"0", "0", "0", "0", "0", "1">>) =>
          conv.first.val = <<"s", "z", ".", "0", "0", "0", "0", "0", "1">>

\* 000001 was converted to sz.000001
C17_Witness ==
    /\ conv.stage = "bs"
    /\ conv.input = <<"0", "0", "0", "0", "0", "1">>
    /\ conv.first = StrResult(<<"s", "z", ".", "0", "0", "0", "0", "0", "1">>)

\* C18: normalization is idempotent per scheme.  _convert_to_tushare_code
\* returns a code of the form digits.SH/.SZ/.BJ unchanged,
\* _convert_to_baostock_code returns a code of the form sh./sz./bj.digits
\* unchanged, and a converter applied to its own result returns that result.
C18_IdempotentPerScheme ==
    /\ (conv.stage = "ts" /\ conv.input \in TushareCodes) => conv.first = StrResult(conv.input)
    /\ (conv.stage = "bs" /\ conv.input \in BaostockCodes) => conv.first = StrResult(conv.input)
    /\ conv.stage \in {"ts_ts", "bs_bs"} => conv.second = conv.first

\* C19: normalization is invertible.  For every bare code whose first digit
\* is one of 6, 0, 3, 8, 4, the code converted to a provider format and taken
\* back to canonical form is the code itself.
C19_RoundTrip ==
    (/\ conv.stage \in {"ts_back", "bs_back"}
     /\ conv.input \in BareCodes
     /\ RecognizedLead(conv.input))
        => conv.second = StrResult(conv.input)

\* 600519 went to sh.600519 and came back
C19_Witness ==
    /\ conv.stage = "bs_back"
    /\ conv.input = <<"6", "0", "0", "5", "1", "9">>
    /\ conv.first = StrResult(<<"s", "h", ".", "6", "0", "0", "5", "1", "9">>)
    /\ conv.second = StrResult(conv.input)

\* C20: malformed codes never raise and default to Shanghai.  For every
\* input string both converters return a string, and every input with no
\* recognized leading digit is mapped to .SH, respectively sh.
C20_NeverRaisesDefaultShanghai ==
    /\ conv.stage \in {"ts", "bs"} => conv.first.kind = "str"
    /\ (conv.stage = "ts" /\ ~RecognizedLead(conv.input)) =>
          EndsWith(conv.first.val, <<".", "S", "H">>)
    /\ (conv.stage = "bs" /\ ~RecognizedLead(conv.input)) =>
          StartsWith(conv.first.val, <<"s", "h", ".">>)

\* C20 as the code has it: for every input string both converters return a
\* string, and every input without a dot and with no recognized leading
\* digit is mapped to .SH, respectively sh.
C20_NeverRaisesBareDefaultShanghai ==
    /\ conv.stage \in {"ts", "bs"} => conv.first.kind = "str"
    /\ (conv.stage = "ts" /\ ~has_dot(conv.input) /\ ~RecognizedLead(conv.input)) =>
          EndsWith(conv.first.val, <<".", "S", "H">>)
    /\ (conv.stage = "bs" /\ ~has_dot(conv.input) /\ ~RecognizedLead(conv.input)) =>
          StartsWith(conv.first.val, <<"s", "h", ".">>)

\* the empty string was converted to sh.
C20_Witness ==
    /\ conv.stage = "bs"
    /\ conv.input = << >>
    /\ conv.first = StrResult(<<"s", "h", ".">>)

\* the column names TuShare's table has after df.rename and Baostock's table
\* has from its fields, for the nine columns of the daily-history schema
DAILY_SCHEMA ==
    {"date", "open", "high", "low", "close", "preclose", "volume", "amount", "pctChg"}

Columns(df) == {df.cols[i] : i \in 1..Len(df.cols)}

ProviderNames == {"TuShare", "Baostock", "AkShare"}

\* C21: every successful daily-history result is fully normalized.  The
\* table a get_daily_data request returned carries all columns of the daily
\* schema under the shared names, whichever provider produced it.
C21_FullyNormalized ==
    \A t \in Threads :
        (op[t] = "daily" /\ Returned(t) /\ ret[t].df # NONE) =>
            DAILY_SCHEMA \subseteq Columns(ret[t].df)

\* C22: every return of get_daily_data is (None, the failure text) or a
\* table with rows together with the name of a provider whose daily-history
\* function was called in this request and answered with those rows.
C22_ReturnShape ==
    \A t \in Threads :
        (op[t] = "daily" /\ pc[t] \in {"done", "raised"}) =>
            /\ ret[t].kind = "return"
            /\ \/ ret[t] = ReturnAllFailed
               \/ /\ ret[t].df.kind = "df"
                  /\ ret[t].df.n > 0
                  /\ ret[t].text \in ProviderNames
                  /\ \E i \in 1..Len(calls[t]) :
                        /\ calls[t][i].fn \in DailyFns
                        /\ ProviderOf(calls[t][i].fn) = ret[t].text
                        /\ calls[t][i].ans.kind \in {"df", "rs"}
                        /\ calls[t][i].ans.n = ret[t].df.n

\* a request returned the rows of AkShare after TuShare and Baostock were
\* called without result
C22_Witness ==
    \E t \in Threads :
        /\ op[t] = "daily" /\ Returned(t)
        /\ ret[t].text = "AkShare"
        /\ ret[t].df.n = MaxRows
        /\ Len(calls[t]) = 4

\* Baostock returned a result to the financial request before call i: its
\* third query was answered and one of its queries had error_code "0"
BaostockResultBefore(cs, i) ==
    /\ \E j \in 1..(i - 1) :
          cs[j].fn = "bs.query_cash_flow_data" /\ cs[j].ans.kind = "rs"
    /\ \E j \in 1..(i - 1) :
          /\ cs[j].fn \in {"bs.query_profit_data", "bs.query_balance_data",
                           "bs.query_cash_flow_data"}
          /\ cs[j].ans.kind = "rs"
          /\ cs[j].ans.error_code = BS_OK

\* C25: the financial chain is Baostock then AkShare.  A get_financial_data
\* request never calls TuShare, starts with Baostock, queries Baostock only
\* with a session acquired, and calls AkShare only after Baostock gave no
\* result.
C25_FinancialChain ==
    \A t \in Threads :
        op[t] = "fin" =>
            /\ pc[t] # "ts_daily"
            /\ \A i \in 1..Len(calls[t]) : ProviderOf(calls[t][i].fn) # "TuShare"
            /\ pc[t] \in {"bs_profit", "bs_balance", "bs_cash"} =>
                  objs[self[t]].baostock_logged_in
            /\ pc[t] \in {"ak_balance", "ak_profit", "ak_cashflow"} =>
                  /\ Len(calls[t]) >= 1
                  /\ ~BaostockResultBefore(calls[t], Len(calls[t]) + 1)
            /\ \A i \in 1..Len(calls[t]) :
                  ProviderOf(calls[t][i].fn) = "AkShare" =>
                      /\ i > 1
                      /\ ProviderOf(calls[t][1].fn) = "Baostock"
                      /\ ~BaostockResultBefore(calls[t], i)

\* on an object with a TuShare api, a financial request was served by
\* AkShare after the login and three Baostock queries that gave no table
C25_Witness ==
    \E t \in Threads :
        /\ op[t] = "fin" /\ Returned(t)
        /\ Truthy(objs[self[t]].tushare_api)
        /\ ret[t].text = "AkShare"
        /\ Len(calls[t]) = 7
        /\ calls[t][4].fn = "bs.query_cash_flow_data"

\* C23: throttling.  After consecutive rate-limited failures of TuShare the
\* following requests skip it: no request is about to call ts.daily when
\* every earlier request of the run, at least MaxOps - 1 of them in a row,
\* met an exception of ts.daily.
C23_SkippedAfterFailures ==
    \A t \in Threads : pc[t] = "ts_daily" => tsRaised < MaxOps - 1

\* C24: cancellation.  Once the caller has abandoned a request, no provider
\* function is called for it any more.
C24_NoCallAfterAbandon ==
    [][\A t \in Threads :
        abandoned[t] => Len(calls'[t]) <= Len(calls[t])]_vars

\* C26: the two date formats are equivalent.  For every date range, the date
\* arguments of the provider calls are the same for the range written
\* YYYYMMDD and written YYYY-MM-DD: TuShare and AkShare receive YYYYMMDD,
\* Baostock receives YYYY-MM-DD.
C26_DateFormatsEquivalent ==
    dates.stage = "done" =>
        /\ dates.compact = dates.hyphened
        /\ dates.compact.ts = <<YYYYMMDD(dates.y, dates.m, dates.d),
                                YYYYMMDD(dates.y2, dates.m2, dates.d2)>>
        /\ dates.compact.ak = dates.compact.ts
        /\ dates.compact.bs = <<YYYY_MM_DD(dates.y, dates.m, dates.d),
                                YYYY_MM_DD(dates.y2, dates.m2, dates.d2)>>

\* the range 2024-01-01 .. 2024-12-31 was normalised from both writings
C26_Witness ==
    /\ dates.stage = "done"
    /\ dates.hyphened.ts = <<<<"2", "0", "2", "4", "0", "1", "0", "1">>,
                             <<"2", "0", "2", "4", "1", "2", "3", "1">>>>
    /\ dates.hyphened.bs = <<<<"2", "0", "2", "4", "-", "0", "1", "-", "0", "1">>,
                             <<"2", "0", "2", "4", "-", "1", "2", "-", "3", "1">>>>

\* the value a table given to save_daily_data holds for a date: that of its
\* last row with the date
RECURSIVE LastClose(_, _)
LastClose(rows, d) ==
    IF rows = << >> THEN ""
    ELSE IF rows[Len(rows)].date = d THEN rows[Len(rows)].close
    ELSE LastClose(SubSeq(rows, 1, Len(rows) - 1), d)

DatesOf(rows) == {rows[i].date : i \in 1..Len(rows)}

\* thread t's call commits and returns normally in this step
CommitsDaily(t) == job[t].op = "daily" /\ job[t].pc = "commit" /\ job'[t].pc = "done"

\* C27: save_daily_data keeps one row per stock and date.  The table never
\* holds two rows of one (code, date), and when a call commits and returns
\* normally the row of each date of its table carries the values of the
\* call.
C27_OneRowPerCodeAndDate ==
    [][/\ \A k \in Keys : Len(tbl'[k]) <= 1
       /\ \A t \in Threads :
            CommitsDaily(t) =>
                \A d \in DatesOf(job[t].df.rows) :
                    tbl'[<<job[t].code, d>>] =
                        <<StockDaily(LastClose(job[t].df.rows, d), job[t].data_source)>>]_vars

\* the rows of the call of thread t that the commit wrote: one per date
RowsWritten(t) == Cardinality(DatesOf(job[t].df.rows))

\* C28: save_daily_data returns the number of records it inserted or
\* updated.  A call that returned normally from a commit returns the number
\* of rows it wrote, new or overwritten; a call with no table returns 0.
C28_ReturnsRowsWritten ==
    \A t \in Threads :
        (job[t].op = "daily" /\ job[t].pc = "done") =>
            job[t].ret = RowsWritten(t)

\* C29: save_daily_data is all-or-nothing.  A step in which the call fails
\* (a row that cannot be processed, or the commit) leaves stock_daily as it
\* was, and the call raises; the table is changed by the step of a commit
\* that succeeds only.
C29_AllOrNothing ==
    [][\A t \in Threads :
        job[t].op = "daily" =>
            /\ (job'[t].pc = "raised" /\ job[t].pc # "raised") =>
                  /\ tbl' = tbl
                  /\ job'[t].ret = "raise"
            /\ (job[t].pc = "row" /\ job'[t] # job[t]) => tbl' = tbl]_vars

\* a call whose commit met the unique constraint has raised after one of
\* its two rows could have been inserted
C29_Witness ==
    \E t \in Threads :
        /\ job[t].op = "daily" /\ job[t].pc = "raised"
        /\ Len(job[t].pending) = 2
        /\ job[t].pending[1].key = job[t].pending[2].key
        /\ Len(tbl[job[t].pending[1].key]) = 0

\* C30: only successful analyses are stored.  Every row of
\* stock_analysis_result was written from a result with success true, no
\* key has two rows, and a call with a result whose success is false
\* returns False without touching the table.
C30_OnlySuccessStored ==
    /\ \A k \in Keys :
        /\ Len(atbl[k]) <= 1
        /\ \A i \in 1..Len(atbl[k]) : atbl[k][i].success
    /\ \A t \in Threads :
        (job[t].op = "analysis" /\ ~job[t].result.success) =>
            /\ job[t].pc = "done"
            /\ job[t].ret = FALSE
            /\ job[t].pending = << >>

\* a result with success false was turned away while the table holds the row
\* of an earlier result
C30_Witness ==
    \E t \in Threads :
        /\ job[t].op = "analysis" /\ job[t].pc = "done"
        /\ ~job[t].result.success
        /\ job[t].ret = FALSE
        /\ Len(atbl[<<job[t].code, job[t].analysis_date>>]) = 1

\* the table holds exactly one row of the date of the overview of thread t,
\* with its counts and its indices, and save_market_overview returned True
OverviewStored(t) ==
    LET r == review[t]
        rows == mtbl[r.overview.date]
    IN  /\ r.ret = "True"
        /\ Len(rows) = 1
        /\ rows[1].up_count = r.overview.up_count
        /\ rows[1].down_count = r.overview.down_count
        /\ Len(rows[1].indices.items) = Len(r.overview.indices)

\* C31: after save_market_overview came back from a database that refused
\* nothing, it returned True and market_overview holds exactly one row for
\* the overview's date with the overview's counts and indices;
\* run_daily_review logs the data as saved only in that case.
C31_OverviewPersisted ==
    \A t \in Threads :
        /\ (/\ review[t].pc \in {"log", "done"}
            /\ review[t].ret \in {"True", "False"}
            /\ review[t].fault = "none") => OverviewStored(t)
        /\ review[t].logged = "saved" => OverviewStored(t)

\* C32: since the last reset_instance, all constructions and get_instance
\* calls that returned gave the same object, and the engine and session
\* factory were created at most once.
C32_Singleton ==
    /\ Cardinality(dbm.returned) <= 1
    /\ dbm.engines <= 1

\* the quote sources in the order of the fallback
QuoteSources == <<"eastmoney", "sina", "tencent">>
Delivered(c) == c.ans \in {"rows", "data"}

\* C33: the realtime sources are called in the order Eastmoney, Sina,
\* Tencent, a later one only after every earlier one raised or gave no rows;
\* the call returns a list, built from the first source that delivered data,
\* and an empty list after all three gave nothing.
C33_RealtimeFallback ==
    /\ Len(quotes.calls) <= Len(QuoteSources)
    /\ \A i \in 1..Len(quotes.calls) :
        /\ quotes.calls[i].fn = QuoteSources[i]
        /\ \A j \in 1..(i - 1) : ~Delivered(quotes.calls[j])
    /\ quotes.pc = "done" =>
        /\ quotes.ret = "list"
        /\ \A i \in 1..Len(quotes.calls) :
            Delivered(quotes.calls[i]) => quotes.indices.source = quotes.calls[i].fn
        /\ (\A i \in 1..Len(quotes.calls) : ~Delivered(quotes.calls[i])) =>
            /\ Len(quotes.calls) = Len(QuoteSources)
            /\ quotes.indices = NO_INDICES

C33_Witness ==
    /\ quotes.pc = "done"
    /\ Len(quotes.calls) = 3
    /\ quotes.calls[1].ans = "raise"
    /\ quotes.calls[2].ans = "empty"
    /\ quotes.indices.source = "tencent"
    /\ quotes.indices.n > 0

\* C34: main returns 0 only when nothing of the selected mode failed, 1
\* when the execution failed (an exception of the stock analysis run
\* included), and 130 when the user interrupted the run.
C34_ExitCode ==
    run.pc = "exit" =>
        /\ run.code = 0 => ~run.failed /\ ~run.interrupted
        /\ run.interrupted => run.code = 130
        /\ (run.failed /\ ~run.interrupted) => run.code = 1

\* positions of an event in the events of run_full_analysis
Positions(e) == {i \in 1..Len(run.events) : run.events[i] = e}

\* C35: in run_full_analysis the market review runs at most once and only
\* after pipeline.run has returned, not at all when it is disabled or
\* --no-market-review is given, and the analysis delay is waited, before the
\* review, exactly when the review is going to run and the delay is positive.
C35_ReviewOnceAfterStocks ==
    run.mode \in {"once", "schedule"} =>
        /\ Cardinality(Positions("run_market_review")) <= 1
        /\ \A i \in Positions("run_market_review") :
            \E j \in Positions("pipeline.returned") : j < i
        /\ (~run.config.market_review_enabled \/ run.args.no_market_review) =>
            Positions("run_market_review") = {}
        /\ \A i \in Positions("sleep") :
            /\ run.config.analysis_delay > 0
            /\ run.config.market_review_enabled /\ ~run.args.no_market_review
        /\ \A i \in Positions("run_market_review") :
            run.config.analysis_delay > 0 =>
                \E j \in Positions("sleep") : j < i

C35_Witness ==
    /\ run.pc = "exit"
    /\ run.events = <<"pipeline.run", "pipeline.returned", "sleep", "run_market_review">>

\* C36: when the command line gives --start-date S and --end-date E and no
\* --period, the fetcher is asked for the range S to E, both written
\* YYYY-MM-DD.
C36_ExplicitRangeHonoured ==
    (/\ hist.pc \in {"fetched", "done"}
     /\ hist.given.start_date.kind = "date"
     /\ hist.given.end_date.kind = "date"
     /\ hist.given.period = "None") =>
        /\ hist.request.start_date = Date(hist.given.start_date.day, "YYYY-MM-DD")
        /\ hist.request.end_date = Date(hist.given.end_date.day, "YYYY-MM-DD")

====
